---- MODULE Spec2Model ----
(***************************************************************************)
(* seacan: driving `cargo build` / `cargo test --no-run`, parsing the      *)
(* toolchain's JSON message stream into executable artifacts, classifying  *)
(* a failed run from its stderr text, and listing the tests of each built  *)
(* test binary.                                                            *)
(*                                                                         *)
(* Texts (stderr, listing stdout) are sequences of tokens.  A token is a   *)
(* piece of text the patterns of the source treat as a unit: a literal     *)
(* phrase of a regex, one word character, one punctuation character, a     *)
(* newline, or a byte that is not valid UTF-8.  The text a sequence stands *)
(* for is the concatenation of its tokens.                                 *)
(***************************************************************************)
EXTENDS Integers, Sequences, FiniteSets

\* ------------------------------------------------------------------ bounds

\* stdout records the toolchain writes in one run
MaxRecords == 3
\* segments (a token or a whole message) of a stderr text given to the classifier
MaxSegs == 3
\* segments (a token or a whole line) of the stdout of a listing invocation
MaxLines == 3
\* writes and closes the toolchain child does before it exits
MaxWrites == 3
\* items a pipe between the child and the engine holds before a write blocks
PipeCap == 1
\* calls of compile made on one Compiler
MaxCalls == 2
\* stdout records of a run of a Compiler called more than once
CallRecords == 1
\* tokens of the stdout of a listing invocation parsed line by line
MaxTokens == 5

\* ----------------------------------------------------------------- helpers

None == <<>>
Some(x) == <<x>>

Min(S) == CHOOSE x \in S : \A y \in S : x <= y
Max(S) == CHOOSE x \in S : \A y \in S : x >= y

\* the subsequence of s from position i to its end
Tail_from(s, i) == SubSeq(s, i, Len(s))

\* texts of at most n segments drawn from segs
RECURSIVE TextsOf(_, _)
TextsOf(segs, n) ==
    IF n = 0 THEN {<<>>}
    ELSE LET shorter == TextsOf(segs, n - 1)
         IN  shorter \cup {t \o s : t \in shorter, s \in segs}

\* ------------------------------------------------ toolchain stdout records

\* cargo_metadata::Artifact as the toolchain reports it
CargoArtifact(t, exe, test) ==
    [package_id |-> <<"pkg", t>>,
     target     |-> [name |-> t, src_path |-> <<"src", t>>],
     profile    |-> [test |-> test],
     features   |-> IF test THEN <<"default">> ELSE <<>>,
     filenames  |-> exe,
     executable |-> exe,
     fresh      |-> (t = "t1")]

CompilerMessage(d)  == [reason |-> "compiler-message", message |-> d]
CompilerArtifact(a) == [reason |-> "compiler-artifact", artifact |-> a]
OtherMessage        == [reason |-> "build-script-executed"]

Diagnostics == {"d1", "d2"}

CargoArtifacts ==
    { CargoArtifact("t1", Some("e1"), TRUE),
      CargoArtifact("t2", Some("e2"), TRUE),
      CargoArtifact("t1", None, TRUE),
      CargoArtifact("t2", Some("e2"), FALSE),
      CargoArtifact("t1", None, FALSE) }

\* what one item of the message iterator can be
Messages ==
    {CompilerMessage(d) : d \in Diagnostics}
    \cup {CompilerArtifact(a) : a \in CargoArtifacts}
    \cup {OtherMessage}

\* mutant: the conversion taking the file list for the feature list
ExecutableArtifact_maybe_from_mixed(art) ==
    IF art.executable = None THEN None
    ELSE Some([package_id |-> art.package_id,
               target     |-> art.target,
               profile    |-> art.profile,
               features   |-> art.filenames,
               filenames  |-> art.filenames,
               executable |-> art.executable[1],
               fresh      |-> art.fresh])

ExecutableArtifact_maybe_from(art) ==
    IF art.executable = None THEN None
    ELSE Some([package_id |-> art.package_id,
               target     |-> art.target,
               profile    |-> art.profile,
               features   |-> art.features,
               filenames  |-> art.filenames,
               executable |-> art.executable[1],
               fresh      |-> art.fresh])

\* ------------------------------------------------------------ result values

NoResult     == [tag |-> "None",  ok |-> <<>>, err |-> <<>>, arg |-> <<>>]
Ok(v)        == [tag |-> "Ok",    ok |-> v,    err |-> <<>>, arg |-> <<>>]
Err(e)       == [tag |-> "Err",   ok |-> <<>>, err |-> e.err, arg |-> e.arg]
Panic(msg)   == [tag |-> "Panic", ok |-> <<>>, err |-> <<>>, arg |-> <<msg>>]

\* BuildError (lib.rs) and test::Error (test.rs): the variant path and its payload
RunCargo(io)        == [err |-> <<"RunCargo">>, arg |-> <<io>>]
NotFound(n)         == [err |-> <<"NotFound">>, arg |-> n]
PackageNotFound(p)  == [err |-> <<"PackageNotFound">>, arg |-> p]
Cargo(text)         == [err |-> <<"Cargo">>, arg |-> text]
Build(e)            == [err |-> <<"Build">> \o e.err, arg |-> e.arg]
Execute(io)         == [err |-> <<"Execute">>, arg |-> <<io>>]
Libtest(text)       == [err |-> <<"Libtest">>, arg |-> text]
Parse(text)         == [err |-> <<"Parse">>, arg |-> text]

\* ------------------------------------------------- stderr text and patterns

ERROR      == "error: "
NO         == "no "
TARGET     == " target named "
\* the character ` (which a TLA+ string cannot hold)
BACKTICK   == "[backtick]"
PKGSPEC    == "package ID specification "
NOMATCH    == " did not match any packages"
NL         == "\n"

WordChars == {"a", "b"}
StderrTokens == {ERROR, NO, TARGET, BACKTICK, PKGSPEC, NOMATCH, NL} \cup WordChars

\* `.` of the regex crate: any character but a newline
Dot(c) == c # NL

\* the shortest capture (.*?) starting at position i that is followed by `rest`
LazyCapture(s, i, rest) ==
    LET ends == {j \in (i - 1)..Len(s) :
                    /\ \A k \in i..j : Dot(s[k])
                    /\ j + Len(rest) <= Len(s)
                    /\ SubSeq(s, j + 1, j + Len(rest)) = rest}
    IN  IF ends = {} THEN None ELSE Some(SubSeq(s, i, Min(ends)))

\* r"error: no \w+ target named `(?P<n>.*?)`" matched at position i: the capture n
NOT_FOUND_RE_at(s, i) ==
    IF ~(i + 1 <= Len(s) /\ s[i] = ERROR /\ s[i + 1] = NO) THEN None
    ELSE LET ws == {j \in (i + 2)..Len(s) : \A k \in (i + 2)..j : s[k] \in WordChars}
         IN  IF ws = {} THEN None
             ELSE LET j == Max(ws)
                  IN  IF j + 2 <= Len(s) /\ s[j + 1] = TARGET /\ s[j + 2] = BACKTICK
                      THEN LazyCapture(s, j + 3, <<BACKTICK>>)
                      ELSE None

\* r"error: package ID specification `(?P<p>.*?)` did not match any packages"
PKG_NOT_FOUND_RE_at(s, i) ==
    IF i + 2 <= Len(s) /\ s[i] = ERROR /\ s[i + 1] = PKGSPEC /\ s[i + 2] = BACKTICK
    THEN LazyCapture(s, i + 3, <<BACKTICK, NOMATCH>>)
    ELSE None

\* Regex::captures: the leftmost match
NOT_FOUND_RE(s) ==
    LET at == {i \in 1..Len(s) : NOT_FOUND_RE_at(s, i) # None}
    IN  IF at = {} THEN None ELSE NOT_FOUND_RE_at(s, Min(at))

\* mutant: the last match in the text instead of the first
PKG_NOT_FOUND_RE_rightmost(s) ==
    LET at == {i \in 1..Len(s) : PKG_NOT_FOUND_RE_at(s, i) # None}
    IN  IF at = {} THEN None ELSE PKG_NOT_FOUND_RE_at(s, Max(at))

PKG_NOT_FOUND_RE(s) ==
    LET at == {i \in 1..Len(s) : PKG_NOT_FOUND_RE_at(s, i) # None}
    IN  IF at = {} THEN None ELSE PKG_NOT_FOUND_RE_at(s, Min(at))

\* mutant: the package pattern tried before the target pattern
from_stderr_package_first(rd) ==
    IF rd = None THEN RunCargo("read_to_string")
    ELSE LET stderr_buf == rd[1]
         IN  IF PKG_NOT_FOUND_RE(stderr_buf) # None
             THEN PackageNotFound(PKG_NOT_FOUND_RE(stderr_buf)[1])
             ELSE IF NOT_FOUND_RE(stderr_buf) # None
             THEN NotFound(NOT_FOUND_RE(stderr_buf)[1])
             ELSE Cargo(stderr_buf)

\* mutant: the generic error carrying the text without its final newline
from_stderr_trimmed(rd) ==
    IF rd = None THEN RunCargo("read_to_string")
    ELSE LET stderr_buf == rd[1]
         IN  IF NOT_FOUND_RE(stderr_buf) # None
             THEN NotFound(NOT_FOUND_RE(stderr_buf)[1])
             ELSE IF PKG_NOT_FOUND_RE(stderr_buf) # None
             THEN PackageNotFound(PKG_NOT_FOUND_RE(stderr_buf)[1])
             ELSE IF stderr_buf # <<>> /\ stderr_buf[Len(stderr_buf)] = NL
             THEN Cargo(SubSeq(stderr_buf, 1, Len(stderr_buf) - 1))
             ELSE Cargo(stderr_buf)

\* mutant: a failed read leaves the text read so far, here none, to classify
from_stderr_classifies_partial(rd) ==
    LET stderr_buf == IF rd = None THEN <<>> ELSE rd[1]
    IN  IF NOT_FOUND_RE(stderr_buf) # None
        THEN NotFound(NOT_FOUND_RE(stderr_buf)[1])
        ELSE IF PKG_NOT_FOUND_RE(stderr_buf) # None
        THEN PackageNotFound(PKG_NOT_FOUND_RE(stderr_buf)[1])
        ELSE Cargo(stderr_buf)

\* BuildError::from_stderr; rd is what read_to_string gave: None on an I/O error
from_stderr(rd) ==
    IF rd = None THEN RunCargo("read_to_string")
    ELSE LET stderr_buf == rd[1]
         IN  IF NOT_FOUND_RE(stderr_buf) # None
             THEN NotFound(NOT_FOUND_RE(stderr_buf)[1])
             ELSE IF PKG_NOT_FOUND_RE(stderr_buf) # None
             THEN PackageNotFound(PKG_NOT_FOUND_RE(stderr_buf)[1])
             ELSE Cargo(stderr_buf)

\* the messages of the toolchain
TargetMsg(kind, n) == <<ERROR, NO>> \o kind \o <<TARGET, BACKTICK>> \o n \o <<BACKTICK>>
PackageMsg(p)      == <<ERROR, PKGSPEC, BACKTICK>> \o p \o <<BACKTICK, NOMATCH>>

\* the stderr texts a toolchain run of the engine model ends with: progress
\* output when it succeeds, a message when it fails
StderrSamples(w) ==
    IF w = "success" THEN { <<"a", NL>> }
    ELSE { <<"a", NL>>,
           TargetMsg(<<"b">>, <<"a">>) \o <<NL>>,
           PackageMsg(<<"a">>) \o <<NL>> }

\* ------------------------------------------------ test binary listing text

COLON      == ":"
SPACE      == " "
TEST       == "test"
BENCHMARK  == "benchmark"
\* a byte that is not valid UTF-8
BADBYTE    == "\\xFF"
\* U+FFFD, what a lossy decoding puts in its place
REPLACEMENT == "\\uFFFD"

\* String::from_utf8: None when a byte is not valid UTF-8
from_utf8(bytes) ==
    IF \E i \in 1..Len(bytes) : bytes[i] = BADBYTE THEN None ELSE Some(bytes)

\* String::from_utf8_lossy
from_utf8_lossy(bytes) ==
    [i \in 1..Len(bytes) |-> IF bytes[i] = BADBYTE THEN REPLACEMENT ELSE bytes[i]]

\* str::lines: the text split at newlines, a final line needing none
RECURSIVE lines(_)
lines(s) ==
    IF s = <<>> THEN <<>>
    ELSE LET nls == {i \in 1..Len(s) : s[i] = NL}
         IN  IF nls = {} THEN <<s>>
             ELSE <<SubSeq(s, 1, Min(nls) - 1)>> \o lines(Tail_from(s, Min(nls) + 1))

\* mutant: a lazy n, ending at the first ": "
LINE_RE_lazy(line) ==
    LET at == {i \in 1..(Len(line) - 1) : line[i] = COLON /\ line[i + 1] = SPACE}
    IN  IF at = {} THEN None
        ELSE Some([n |-> SubSeq(line, 1, Min(at) - 1),
                   t |-> Tail_from(line, Min(at) + 2)])

\* r"^(?P<n>.*): (?P<t>.*)$" on one line: the greedy n ends at the last ": "
LINE_RE(line) ==
    LET at == {i \in 1..(Len(line) - 1) : line[i] = COLON /\ line[i + 1] = SPACE}
    IN  IF at = {} THEN None
        ELSE Some([n |-> SubSeq(line, 1, Max(at) - 1),
                   t |-> Tail_from(line, Max(at) + 2)])

TestFn(name, test_type) == [name |-> name, test_type |-> test_type]

\* mutant: a kind that is neither test nor benchmark taken for a test
push_test_default_test(tests, caps) ==
    IF caps.t = <<BENCHMARK>> THEN Append(tests, TestFn(caps.n, "Bench"))
    ELSE Append(tests, TestFn(caps.n, "Test"))

\* the loop body of parse_libtest_stdout for a line that matched: the tests after it
push_test(tests, caps) ==
    IF caps.t = <<TEST>> THEN Append(tests, TestFn(caps.n, "Test"))
    ELSE IF caps.t = <<BENCHMARK>> THEN Append(tests, TestFn(caps.n, "Bench"))
    ELSE tests

\* mutant: the failure carrying the offending line, and the units parsed before it
RECURSIVE parse_lines_offending_line(_, _, _)
parse_lines_offending_line(stdout, ls, tests) ==
    IF ls = <<>> THEN [ok |-> TRUE, tests |-> tests, err |-> Parse(<<>>)]
    ELSE IF LINE_RE(Head(ls)) = None
         THEN [ok |-> FALSE, tests |-> tests, err |-> Parse(Head(ls))]
         ELSE parse_lines_offending_line(stdout, Tail(ls),
                                         push_test(tests, LINE_RE(Head(ls))[1]))

RECURSIVE parse_lines(_, _, _)
parse_lines(stdout, ls, tests) ==
    IF ls = <<>> THEN [ok |-> TRUE, tests |-> tests, err |-> Parse(<<>>)]
    ELSE IF LINE_RE(Head(ls)) = None
         THEN [ok |-> FALSE, tests |-> <<>>, err |-> Parse(stdout)]
         ELSE parse_lines(stdout, Tail(ls), push_test(tests, LINE_RE(Head(ls))[1]))

parse_libtest_stdout(stdout) == parse_lines(stdout, lines(stdout), <<>>)

\* ------------------------------------------------------------ name policy

Exact(s)      == <<"Exact", s>>
Substring(s)  == <<"Substring", s>>
Any           == <<"Any">>

exact_run_args(n) == <<"--exact", n>>

\* mutant: the substring policy passed as an exact name
run_args_substring_as_exact(name) ==
    IF name[1] = "Exact" THEN exact_run_args(name[2])
    ELSE IF name[1] = "Substring" THEN exact_run_args(name[2])
    ELSE <<>>

\* NameSpec::run_args
run_args(name) ==
    IF name[1] = "Exact" THEN exact_run_args(name[2])
    ELSE IF name[1] = "Substring" THEN <<name[2]>>
    ELSE <<>>

\* Artifact::run_args and TestFn::run_args
Artifact_run_args(a) == run_args(a.name_spec)
TestFn_run_args(t) == exact_run_args(t.name)

NameSpecs == {Any, Exact("a"), Substring("a")}

\* what one listing invocation of a test binary does: whether it could be
\* spawned and waited for, its exit status, and the bytes of its two pipes
Output(io, success, stdout, stderr) ==
    [io |-> io, success |-> success, stdout |-> stdout, stderr |-> stderr]

ListingSamples ==
    { Output("spawn", FALSE, <<>>, <<>>),
      Output("wait", FALSE, <<>>, <<>>),
      Output("ok", FALSE, <<"a", COLON, SPACE, TEST, NL>>, <<"a", BADBYTE>>),
      Output("ok", TRUE, <<>>, <<>>),
      Output("ok", TRUE, <<"b", COLON, SPACE, BENCHMARK, NL,
                           "a", COLON, SPACE, "a", NL,
                           "a", COLON, SPACE, TEST, NL>>, <<"a">>),
      Output("ok", TRUE, <<"a", COLON, SPACE, TEST, NL, "b", NL>>, <<>>),
      Output("ok", TRUE, <<"a", COLON, SPACE, TEST, BADBYTE, NL>>, <<>>) }

\* mutant: stdout decoded and parsed before the exit status is looked at
get_artifact_tests_parse_first(artifact, name, out) ==
    IF out.io # "ok" THEN [ok |-> FALSE, err |-> Execute(out.io), val |-> <<>>]
    ELSE IF from_utf8(out.stdout) = None
    THEN [ok |-> FALSE, err |-> Parse(from_utf8_lossy(out.stdout)), val |-> <<>>]
    ELSE LET parsed == parse_libtest_stdout(from_utf8(out.stdout)[1])
         IN  IF ~parsed.ok THEN [ok |-> FALSE, err |-> parsed.err, val |-> <<>>]
             ELSE IF ~out.success
             THEN [ok |-> FALSE, err |-> Libtest(from_utf8_lossy(out.stderr)),
                   val |-> <<>>]
             ELSE [ok |-> TRUE, err |-> Parse(<<>>),
                   val |-> <<[artifact |-> artifact, tests |-> parsed.tests,
                              name_spec |-> name]>>]

\* mutant: the Artifact returned without the policy it was discovered with
get_artifact_tests_forgets_policy(artifact, name, out) ==
    IF out.io # "ok" THEN [ok |-> FALSE, err |-> Execute(out.io), val |-> <<>>]
    ELSE IF ~out.success
    THEN [ok |-> FALSE, err |-> Libtest(from_utf8_lossy(out.stderr)), val |-> <<>>]
    ELSE IF from_utf8(out.stdout) = None
    THEN [ok |-> FALSE, err |-> Parse(from_utf8_lossy(out.stdout)), val |-> <<>>]
    ELSE LET parsed == parse_libtest_stdout(from_utf8(out.stdout)[1])
         IN  IF ~parsed.ok THEN [ok |-> FALSE, err |-> parsed.err, val |-> <<>>]
             ELSE [ok |-> TRUE, err |-> Parse(<<>>),
                   val |-> <<[artifact |-> artifact, tests |-> parsed.tests,
                              name_spec |-> Any]>>]

\* get_artifact_tests from the spawn on, given what the invocation did
get_artifact_tests(artifact, name, out) ==
    IF out.io # "ok" THEN [ok |-> FALSE, err |-> Execute(out.io), val |-> <<>>]
    ELSE IF ~out.success
    THEN [ok |-> FALSE, err |-> Libtest(from_utf8_lossy(out.stderr)), val |-> <<>>]
    ELSE IF from_utf8(out.stdout) = None
    THEN [ok |-> FALSE, err |-> Parse(from_utf8_lossy(out.stdout)), val |-> <<>>]
    ELSE LET parsed == parse_libtest_stdout(from_utf8(out.stdout)[1])
         IN  IF ~parsed.ok THEN [ok |-> FALSE, err |-> parsed.err, val |-> <<>>]
             ELSE [ok |-> TRUE, err |-> Parse(<<>>),
                   val |-> <<[artifact |-> artifact, tests |-> parsed.tests,
                              name_spec |-> name]>>]

\* ---------------------------------------------------- request configuration

\* PackageSpec and what is passed to --package
PackageSpec_Any == <<"Any">>
Name(repr) == <<"Name", repr>>
Id(repr) == <<"Id", repr>>
ANY_REPR == "*"

as_repr(p) == IF p = PackageSpec_Any THEN ANY_REPR ELSE p[2]

\* FeatureSpecInner
FeatureSpec_All == [all |-> TRUE, include_default |-> TRUE, features |-> <<>>]
Subset(include_default, features) ==
    [all |-> FALSE, include_default |-> include_default, features |-> features]

\* [String]::join
RECURSIVE join(_, _)
join(v, sep) ==
    IF v = <<>> THEN ""
    ELSE IF Len(v) = 1 THEN v[1]
    ELSE v[1] \o sep \o join(Tail(v), sep)

\* mutant: --features pushed for an empty list too
to_args_always_features(f) ==
    IF f.all THEN <<"--all-features">>
    ELSE <<"--features", join(f.features, ",")>>
         \o (IF ~f.include_default THEN <<"--no-default-features">> ELSE <<>>)

\* FeatureSpec::to_args
to_args(f) ==
    IF f.all THEN <<"--all-features">>
    ELSE (IF f.features # <<>> THEN <<"--features", join(f.features, ",")>> ELSE <<>>)
         \o (IF ~f.include_default THEN <<"--no-default-features">> ELSE <<>>)

MSG_FORMAT == "--message-format=json-diagnostic-rendered-ansi"

\* TypeSpec
Lib            == <<"Lib">>
Bin(n)         == <<"Bin", n>>
Bins           == <<"Bins">>
Integration(n) == <<"Integration", n>>
Integrations   == <<"Integrations">>
Example(n)     == <<"Example", n>>
Examples       == <<"Examples">>
Doc            == <<"Doc">>
TypeSpec_All   == <<"All">>

\* the match on self.test_type of artifacts_ignoring_name
test_type_args(t) ==
    CASE t = Lib                 -> <<"--lib">>
      [] t[1] = "Bin"            -> <<"--bin", t[2]>>
      [] t = Bins                -> <<"--bins">>
      [] t[1] = "Integration"    -> <<"--test", t[2]>>
      [] t = Integrations        -> <<"--test", "*">>
      [] t = Doc                 -> <<"--doc">>
      [] t[1] = "Example"        -> <<"--example", t[2]>>
      [] t = Examples            -> <<"--examples">>
      [] t = TypeSpec_All        -> <<>>

\* the fields of a Compiler that its constructor and setters give, but for the
\* observer and the name policy: name and is_example are bin::Compiler's,
\* test_type is test::Compiler's
Compiler(nm, is_example, test_type) ==
    [workspace   |-> None,
     package     |-> PackageSpec_Any,
     name        |-> nm,
     is_example  |-> is_example,
     test_type   |-> test_type,
     target_dir  |-> None,
     features    |-> None,
     is_release  |-> FALSE]

\* Compiler::bin("a"), or Compiler::new(name, TypeSpec::All)
new(k) == IF k = "bin" THEN Compiler("a", FALSE, TypeSpec_All)
          ELSE Compiler("", FALSE, TypeSpec_All)

\* mutant: the selector pushed before the output directory
bin_args_selector_early(c) ==
    <<"build", MSG_FORMAT, "--package", as_repr(c.package)>>
    \o (IF c.features # None THEN to_args(c.features[1]) ELSE <<>>)
    \o (IF c.is_release THEN <<"--release">> ELSE <<>>)
    \o (IF c.is_example THEN <<"--example", c.name>> ELSE <<"--bin", c.name>>)
    \o (IF c.target_dir # None THEN <<"--target-dir", c.target_dir[1]>> ELSE <<>>)

\* the arguments compile gives to cargo: bin.rs
bin_args(c) ==
    <<"build", MSG_FORMAT, "--package", as_repr(c.package)>>
    \o (IF c.features # None THEN to_args(c.features[1]) ELSE <<>>)
    \o (IF c.is_release THEN <<"--release">> ELSE <<>>)
    \o (IF c.target_dir # None THEN <<"--target-dir", c.target_dir[1]>> ELSE <<>>)
    \o (IF c.is_example THEN <<"--example", c.name>> ELSE <<"--bin", c.name>>)

\* the arguments artifacts_ignoring_name gives to cargo: test.rs
test_args(c) ==
    <<"test", "--no-run", MSG_FORMAT, "--package", as_repr(c.package)>>
    \o (IF c.features # None THEN to_args(c.features[1]) ELSE <<>>)
    \o (IF c.is_release THEN <<"--release">> ELSE <<>>)
    \o (IF c.target_dir # None THEN <<"--target-dir", c.target_dir[1]>> ELSE <<>>)
    \o test_type_args(c.test_type)

\* the command built: the program, its arguments, and the directory it runs in
bin_command(c) == [program |-> "cargo", args |-> bin_args(c), current_dir |-> c.workspace]
test_command(c) == [program |-> "cargo", args |-> test_args(c), current_dir |-> c.workspace]

\* ------------------------------------------------------------------ state

VARIABLES
    kind,             \* which Compiler runs: "bin" (bin.rs) or "test" (test.rs)
    name,             \* test::Compiler.name, the name policy
    on_compiler_msg,  \* whether an observer is registered (Some / None)
    pc,               \* where compile is: new, parse, eof, waited, list, done, panic
    consumed,         \* the messages read from the toolchain's stdout so far
    artifact,         \* bin: the local `artifact` of compile, an Option
    artifacts,        \* test: the local `artifacts` of artifacts_ignoring_name
    cb_calls,         \* the messages the observer was called with, in order
    trace,            \* the messages emitted as debug events, in order
    status,           \* the exit status wait returned: none, success or failure
    stderr,           \* the text the toolchain wrote to its stderr pipe
    stderr_read,      \* from_stderr's read of that pipe: unread, read or error
    listed,           \* test: the Artifacts get_artifact_tests has returned
    listings,         \* test: the listing invocations spawned, in order
    result,           \* what compile returned, or the panic that ended it
    child,            \* the toolchain child: its state, what it has yet to do, its ends
    stdout_pipe,      \* what the child wrote to stdout and the engine has not read
    stderr_pipe,      \* what the child wrote to stderr and the engine has not read
    config,           \* the fields of the Compiler that the setters give
    calls,            \* the calls of compile made on the Compiler so far
    commands          \* the toolchain commands this call of compile gave to spawn()

\* the child and its two pipes, which only SpecPipes follows
pipes == <<child, stdout_pipe, stderr_pipe>>

vars == <<kind, name, on_compiler_msg, config, calls, commands, pc, consumed, artifact, artifacts, cb_calls,
          trace, status, stderr, stderr_read, listed, listings, result, pipes>>

\* the toolchain command of the request
toolchain_command == IF kind = "bin" THEN bin_command(config) ELSE test_command(config)

\* no child followed: the engine's reads and waits are given what they return
NoChild == [state |-> "none", program |-> <<>>, stdout |-> "closed", status |-> "none"]

\* Compiler::new, of either module, and the optional on_compiler_msg setter
Init ==
    /\ kind \in {"bin", "test"}
    /\ name \in IF kind = "bin" THEN {Any} ELSE NameSpecs
    /\ on_compiler_msg \in BOOLEAN
    /\ pc = "new"
    /\ consumed = <<>>
    /\ artifact = None
    /\ artifacts = <<>>
    /\ cb_calls = <<>>
    /\ trace = <<>>
    /\ status = "none"
    /\ stderr = <<>>
    /\ stderr_read = "unread"
    /\ listed = <<>>
    /\ listings = <<>>
    /\ result = NoResult
    /\ child = NoChild
    /\ stdout_pipe = <<>>
    /\ stderr_pipe = <<>>
    /\ config = new(kind)
    /\ calls = 1
    /\ commands = <<>>

\* ------------------------------------------------------- shared operations

\* mutant: the debug event emitted only when an observer is registered
handle_compiler_msg_silent(msg) ==
    /\ trace' = IF on_compiler_msg THEN Append(trace, msg) ELSE trace
    /\ cb_calls' = IF on_compiler_msg THEN Append(cb_calls, msg) ELSE cb_calls

handle_compiler_msg(msg) ==
    /\ trace' = Append(trace, msg)
    /\ cb_calls' = IF on_compiler_msg THEN Append(cb_calls, msg) ELSE cb_calls

\* compile returns r
Return(r) ==
    /\ result' = r
    /\ pc' = "done"

\* the child exits: wait fails, or gives the status, the child having written text
Wait(w, text) ==
    /\ pc = "eof"
    /\ IF w = "error"
       THEN /\ Return(Err(IF kind = "bin" THEN RunCargo("wait")
                                          ELSE Build(RunCargo("wait"))))
            /\ UNCHANGED <<status, stderr>>
       ELSE /\ status' = w
            /\ stderr' = text
            /\ pc' = "waited"
            /\ UNCHANGED result

\* ------------------------------------------------------------ bin::Compiler

\* mutant: the accumulator outlives the call
BinSpawn_keeps_artifact ==
    /\ kind = "bin" /\ pc = "new"
    /\ commands' = Append(commands, bin_command(config))
    /\ \/ Return(Err(RunCargo("spawn")))
       \/ pc' = "parse" /\ UNCHANGED result
    /\ UNCHANGED <<pipes, kind, name, on_compiler_msg, config, calls, consumed, artifact,
                   artifacts, cb_calls, trace, status, stderr, stderr_read, listed,
                   listings>>

BinSpawn_reports_cargo ==
    /\ kind = "bin" /\ pc = "new"
    /\ commands' = Append(commands, bin_command(config))
    /\ \/ Return(Err(Cargo(<<>>))) /\ UNCHANGED artifact
       \/ pc' = "parse" /\ artifact' = None /\ UNCHANGED result
    /\ UNCHANGED <<pipes, kind, name, on_compiler_msg, config, calls, consumed, artifacts,
                   cb_calls, trace, status, stderr, stderr_read, listed, listings>>

\* the command is built from the request and spawned; once it runs, compile
\* declares its accumulator
BinSpawn ==
    /\ kind = "bin" /\ pc = "new"
    /\ commands' = Append(commands, bin_command(config))
    /\ \/ Return(Err(RunCargo("spawn"))) /\ UNCHANGED artifact
       \/ pc' = "parse" /\ artifact' = None /\ UNCHANGED result
    /\ UNCHANGED <<pipes, kind, name, on_compiler_msg, config, calls, consumed, artifacts,
                   cb_calls, trace, status, stderr, stderr_read, listed, listings>>

\* the messages of compile's assert! and of its two expect calls
ASSERT_ONE_EXECUTABLE ==
    "Expected cargo build with --bin or --example to only produce one executable"
EXPECT_BUILT == "If cargo build exits with success should have built an executable"
EXPECT_EXECUTABLE == "Artifact has executable"

\* mutant: the arm without its assert!, a later executable replacing the first
BinCompilerArtifact_no_assert(art) ==
    IF art.executable = None
    THEN UNCHANGED <<artifact, pc, result>>
    ELSE /\ artifact' = Some(art)
         /\ UNCHANGED <<pc, result>>

\* the CompilerArtifact arm of compile's loop
BinCompilerArtifact(art) ==
    IF art.executable = None
    THEN UNCHANGED <<artifact, pc, result>>
    ELSE IF artifact # None
    THEN /\ pc' = "panic"
         /\ result' = Panic(ASSERT_ONE_EXECUTABLE)
         /\ UNCHANGED artifact
    ELSE /\ artifact' = Some(art)
         /\ UNCHANGED <<pc, result>>

\* mutant: a record of another kind makes the loop forget its artifact
BinLoopBody_other_resets(msg) ==
    /\ consumed' = Append(consumed, msg)
    /\ IF msg.reason = "compiler-message"
       THEN /\ handle_compiler_msg(msg.message)
            /\ UNCHANGED <<artifact, pc, result>>
       ELSE IF msg.reason = "compiler-artifact"
       THEN /\ BinCompilerArtifact(msg.artifact)
            /\ UNCHANGED <<cb_calls, trace>>
       ELSE /\ artifact' = None
            /\ UNCHANGED <<pc, result, cb_calls, trace>>

\* the body of compile's loop for the message the stream yields
BinLoopBody(msg) ==
    /\ consumed' = Append(consumed, msg)
    /\ IF msg.reason = "compiler-message"
       THEN /\ handle_compiler_msg(msg.message)
            /\ UNCHANGED <<artifact, pc, result>>
       ELSE IF msg.reason = "compiler-artifact"
       THEN /\ BinCompilerArtifact(msg.artifact)
            /\ UNCHANGED <<cb_calls, trace>>
       ELSE UNCHANGED <<artifact, pc, result, cb_calls, trace>>

\* one turn of the loop over the message stream
BinMessage ==
    /\ kind = "bin" /\ pc = "parse"
    /\ Len(consumed) < MaxRecords
    /\ \E msg \in Messages : BinLoopBody(msg)
    /\ UNCHANGED <<pipes, kind, name, on_compiler_msg, config, calls, commands, artifacts, status, stderr, stderr_read,
                   listed, listings>>

\* mutant: at a read error the executable read so far is returned
BinReadError_returns_artifact ==
    /\ kind = "bin" /\ pc = "parse"
    /\ Return(IF artifact = None THEN Err(RunCargo("read"))
              ELSE Ok(ExecutableArtifact_maybe_from(artifact[1])))
    /\ UNCHANGED <<pipes, kind, name, on_compiler_msg, config, calls, commands, consumed, artifact, artifacts, cb_calls,
                   trace, status, stderr, stderr_read, listed, listings>>

\* the stream yields an error: `msg?` returns it
BinReadError ==
    /\ kind = "bin" /\ pc = "parse"
    /\ Return(Err(RunCargo("read")))
    /\ UNCHANGED <<pipes, kind, name, on_compiler_msg, config, calls, commands, consumed, artifact, artifacts, cb_calls,
                   trace, status, stderr, stderr_read, listed, listings>>

\* the stream ends
BinEof ==
    /\ kind = "bin" /\ pc = "parse"
    /\ pc' = "eof"
    /\ UNCHANGED <<pipes, kind, name, on_compiler_msg, config, calls, commands, consumed, artifact, artifacts, cb_calls,
                   trace, status, stderr, stderr_read, listed, listings, result>>

BinWait ==
    /\ kind = "bin"
    /\ \E w \in {"error", "success", "failure"} : \E text \in StderrSamples(w) : Wait(w, text)
    /\ UNCHANGED <<pipes, kind, name, on_compiler_msg, config, calls, commands, consumed, artifact, artifacts, cb_calls,
                   trace, stderr_read, listed, listings>>

\* the success branch of compile's last expression
\* mutant: a success without an executable reported as a build without target
bin_success_not_found(art) ==
    IF art = None
    THEN Err(NotFound(<<>>))
    ELSE IF ExecutableArtifact_maybe_from(art[1]) = None
    THEN Panic(EXPECT_EXECUTABLE)
    ELSE Ok(ExecutableArtifact_maybe_from(art[1]))

bin_success(art) ==
    IF art = None
    THEN Panic(EXPECT_BUILT)
    ELSE IF ExecutableArtifact_maybe_from(art[1]) = None
    THEN Panic(EXPECT_EXECUTABLE)
    ELSE Ok(ExecutableArtifact_maybe_from(art[1]))

\* mutant: an executable that was built is returned whatever the exit status
BinReturn_ignoring_status ==
    /\ kind = "bin" /\ pc = "waited"
    /\ IF status = "success" \/ artifact # None
       THEN /\ result' = bin_success(artifact)
            /\ pc' = IF result'.tag = "Panic" THEN "panic" ELSE "done"
            /\ UNCHANGED stderr_read
       ELSE \E rd \in {None, Some(stderr)} :
            /\ stderr_read' = IF rd = None THEN "error" ELSE "read"
            /\ Return(Err(from_stderr(rd)))
    /\ UNCHANGED <<pipes, kind, name, on_compiler_msg, config, calls, commands, consumed, artifact, artifacts, cb_calls,
                   trace, status, stderr, listed, listings>>

BinReturn ==
    /\ kind = "bin" /\ pc = "waited"
    /\ IF status = "success"
       THEN /\ result' = bin_success(artifact)
            /\ pc' = IF result'.tag = "Panic" THEN "panic" ELSE "done"
            /\ UNCHANGED stderr_read
       ELSE \E rd \in {None, Some(stderr)} :
            /\ stderr_read' = IF rd = None THEN "error" ELSE "read"
            /\ Return(Err(from_stderr(rd)))
    /\ UNCHANGED <<pipes, kind, name, on_compiler_msg, config, calls, commands, consumed, artifact, artifacts, cb_calls,
                   trace, status, stderr, listed, listings>>

\* ----------------------------------------------------------- test::Compiler

\* the command is built from the request and spawned; once it runs,
\* artifacts_ignoring_name declares its accumulator
TestSpawn ==
    /\ kind = "test" /\ pc = "new"
    /\ commands' = Append(commands, test_command(config))
    /\ \/ Return(Err(Build(RunCargo("spawn")))) /\ UNCHANGED artifacts
       \/ pc' = "parse" /\ artifacts' = <<>> /\ UNCHANGED result
    /\ UNCHANGED <<pipes, kind, name, on_compiler_msg, config, calls, consumed, artifact,
                   cb_calls, trace, status, stderr, stderr_read, listed, listings>>

\* mutant: the arm without its check of the test profile
TestCompilerArtifact_any_profile(art) ==
    IF ExecutableArtifact_maybe_from(art) = None
    THEN UNCHANGED artifacts
    ELSE artifacts' = Append(artifacts, ExecutableArtifact_maybe_from(art)[1])

\* the CompilerArtifact arm of artifacts_ignoring_name's loop
TestCompilerArtifact(art) ==
    IF ~art.profile.test
    THEN UNCHANGED artifacts
    ELSE IF ExecutableArtifact_maybe_from(art) = None
    THEN UNCHANGED artifacts
    ELSE artifacts' = Append(artifacts, ExecutableArtifact_maybe_from(art)[1])

\* the body of artifacts_ignoring_name's loop for the message the stream yields
TestLoopBody(msg) ==
    /\ consumed' = Append(consumed, msg)
    /\ IF msg.reason = "compiler-message"
       THEN /\ handle_compiler_msg(msg.message)
            /\ UNCHANGED artifacts
       ELSE IF msg.reason = "compiler-artifact"
       THEN /\ TestCompilerArtifact(msg.artifact)
            /\ UNCHANGED <<cb_calls, trace>>
       ELSE UNCHANGED <<artifacts, cb_calls, trace>>

TestMessage ==
    /\ kind = "test" /\ pc = "parse"
    /\ Len(consumed) < MaxRecords
    /\ \E msg \in Messages : TestLoopBody(msg)
    /\ UNCHANGED <<pipes, kind, name, on_compiler_msg, config, calls, commands, pc, artifact, status, stderr, stderr_read,
                   listed, listings, result>>

TestReadError ==
    /\ kind = "test" /\ pc = "parse"
    /\ Return(Err(Build(RunCargo("read"))))
    /\ UNCHANGED <<pipes, kind, name, on_compiler_msg, config, calls, commands, consumed, artifact, artifacts, cb_calls,
                   trace, status, stderr, stderr_read, listed, listings>>

TestEof ==
    /\ kind = "test" /\ pc = "parse"
    /\ pc' = "eof"
    /\ UNCHANGED <<pipes, kind, name, on_compiler_msg, config, calls, commands, consumed, artifact, artifacts, cb_calls,
                   trace, status, stderr, stderr_read, listed, listings, result>>

TestWait ==
    /\ kind = "test"
    /\ \E w \in {"error", "success", "failure"} : \E text \in StderrSamples(w) : Wait(w, text)
    /\ UNCHANGED <<pipes, kind, name, on_compiler_msg, config, calls, commands, consumed, artifact, artifacts, cb_calls,
                   trace, stderr_read, listed, listings>>

\* artifacts_ignoring_name returns; on Ok compile starts to map over the artifacts
TestReturn ==
    /\ kind = "test" /\ pc = "waited"
    /\ IF status = "success"
       THEN /\ pc' = "list"
            /\ UNCHANGED <<result, stderr_read>>
       ELSE \E rd \in {None, Some(stderr)} :
            /\ stderr_read' = IF rd = None THEN "error" ELSE "read"
            /\ Return(Err(Build(from_stderr(rd))))
    /\ UNCHANGED <<pipes, kind, name, on_compiler_msg, config, calls, commands, consumed, artifact, artifacts, cb_calls,
                   trace, status, stderr, listed, listings>>

\* mutant: the artifacts taken from the back
into_iter_next_back(v, done) == v[Len(v) - Len(done)]

\* the artifact the iterator of compile hands to get_artifact_tests next
into_iter_next(v, done) == v[Len(done) + 1]

\* mutant: the listing asked for without the policy's filter
listing_command_unfiltered(a, n) ==
    [program |-> a.executable, args |-> <<"--list", "--format=terse">>]

\* the command get_artifact_tests builds for an artifact
listing_command(a, n) ==
    [program |-> a.executable, args |-> <<"--list", "--format=terse">> \o run_args(n)]

\* mutant: at a failed listing compile returns what it has built so far
TestListFrom_returns_partial(outs) ==
    /\ kind = "test" /\ pc = "list"
    /\ Len(listed) < Len(artifacts)
    /\ \E out \in outs :
        LET a == into_iter_next(artifacts, listed)
            r == get_artifact_tests(a, name, out)
        IN  /\ listings' = Append(listings, [cmd |-> listing_command(a, name), out |-> out])
            /\ IF r.ok
               THEN /\ listed' = listed \o r.val
                    /\ UNCHANGED <<pc, result>>
               ELSE /\ Return(Ok(listed))
                    /\ UNCHANGED listed
    /\ UNCHANGED <<pipes, kind, name, on_compiler_msg, config, calls, commands, consumed, artifact, artifacts, cb_calls,
                   trace, status, stderr, stderr_read>>

\* compile maps get_artifact_tests over the next artifact, whose listing
\* invocation does one of outs; collect stops at an Err
TestListFrom(outs) ==
    /\ kind = "test" /\ pc = "list"
    /\ Len(listed) < Len(artifacts)
    /\ \E out \in outs :
        LET a == into_iter_next(artifacts, listed)
            r == get_artifact_tests(a, name, out)
        IN  /\ listings' = Append(listings, [cmd |-> listing_command(a, name), out |-> out])
            /\ IF r.ok
               THEN /\ listed' = listed \o r.val
                    /\ UNCHANGED <<pc, result>>
               ELSE /\ Return(Err(r.err))
                    /\ UNCHANGED listed
    /\ UNCHANGED <<pipes, kind, name, on_compiler_msg, config, calls, commands, consumed, artifact, artifacts, cb_calls,
                   trace, status, stderr, stderr_read>>

TestList == TestListFrom(ListingSamples)

\* mutant: a build that produced no test binary reported as a missing target
TestCollect_empty_is_error ==
    /\ kind = "test" /\ pc = "list"
    /\ Len(listed) = Len(artifacts)
    /\ Return(IF listed = <<>> THEN Err(Build(NotFound(<<>>))) ELSE Ok(listed))
    /\ UNCHANGED <<pipes, kind, name, on_compiler_msg, config, calls, commands, consumed, artifact, artifacts, cb_calls,
                   trace, status, stderr, stderr_read, listed, listings>>

\* the iterator is exhausted: collect gives Ok
TestCollect ==
    /\ kind = "test" /\ pc = "list"
    /\ Len(listed) = Len(artifacts)
    /\ Return(Ok(listed))
    /\ UNCHANGED <<pipes, kind, name, on_compiler_msg, config, calls, commands, consumed, artifact, artifacts, cb_calls,
                   trace, status, stderr, stderr_read, listed, listings>>

Next ==
    \/ BinSpawn \/ BinMessage \/ BinReadError \/ BinEof \/ BinWait \/ BinReturn
    \/ TestSpawn \/ TestMessage \/ TestReadError \/ TestEof \/ TestWait \/ TestReturn
    \/ TestList \/ TestCollect

Spec == Init /\ [][Next]_vars

\* ------------------------------------------- the classifier on its own

\* the pieces a stderr text is put together from: every token, and whole messages
StderrSegments ==
    {<<t>> : t \in StderrTokens}
    \cup {TargetMsg(<<"b">>, <<"a">>), TargetMsg(<<"a">>, <<"b">>),
          PackageMsg(<<"a">>), PackageMsg(<<"b">>)}

\* a run whose toolchain wrote no record, exited with failure, and left any
\* text of at most MaxSegs segments on stderr
InitStderr ==
    /\ kind \in {"bin", "test"}
    /\ name = Any
    /\ on_compiler_msg = FALSE
    /\ pc = "waited"
    /\ consumed = <<>>
    /\ artifact = None
    /\ artifacts = <<>>
    /\ cb_calls = <<>>
    /\ trace = <<>>
    /\ status = "failure"
    /\ stderr \in TextsOf(StderrSegments, MaxSegs)
    /\ stderr_read = "unread"
    /\ listed = <<>>
    /\ listings = <<>>
    /\ result = NoResult
    /\ child = NoChild
    /\ stdout_pipe = <<>>
    /\ stderr_pipe = <<>>
    /\ config = new(kind)
    /\ calls = 1
    /\ commands = <<toolchain_command>>

NextStderr == BinReturn \/ TestReturn

SpecStderr == InitStderr /\ [][NextStderr]_vars

\* ------------------------------------------------------------------ claims

\* the records of a stream that are artifacts carrying an executable path
ExeMessages(c) ==
    SelectSeq(c, LAMBDA m : m.reason = "compiler-artifact" /\ m.artifact.executable # None)

\* C1: in bin::Compiler::compile at most one artifact record carrying an
\* executable path is accepted; the second one makes the assertion fail while
\* the stream is parsed (no wait, no stderr read), and that run returns
\* neither Ok nor a BuildError.
C1_AtMostOneExecutable ==
    kind = "bin" =>
        LET n == Len(ExeMessages(consumed))
        IN  /\ n <= 2
            /\ (n = 2) <=> (result = Panic(ASSERT_ONE_EXECUTABLE))
            /\ n = 2 => /\ pc = "panic"
                        /\ status = "none" /\ stderr_read = "unread"
                        /\ ExeMessages(<<consumed[Len(consumed)]>>) # <<>>
            /\ artifact = IF n = 0 THEN None ELSE Some(ExeMessages(consumed)[1].artifact)

\* C1 witness: a second executable artifact arrived, after a record in between
C1_Witness ==
    /\ kind = "bin" /\ pc = "panic"
    /\ Len(consumed) = 3
    /\ Len(ExeMessages(consumed)) = 2
    /\ ExeMessages(<<consumed[2]>>) = <<>>

\* C2: when bin::Compiler::compile returns Ok it returns one Executable
\* Artifact whose seven fields are those of the only record of the stream that
\* carried an executable path; records without one are skipped wherever they
\* stand and do not count toward the limit of one, so a successful run with
\* exactly one executable record returns Ok.
C2_ReturnsTheExecutable ==
    kind = "bin" =>
        LET ex == ExeMessages(consumed)
        IN  /\ result.tag = "Ok" =>
                /\ Len(ex) = 1 /\ Len(result.ok) = 1
                /\ LET r == result.ok[1]
                       a == ex[1].artifact
                   IN  /\ r.package_id = a.package_id
                       /\ r.target.name = a.target.name
                       /\ r.target.src_path = a.target.src_path
                       /\ r.profile = a.profile
                       /\ r.features = a.features
                       /\ r.filenames = a.filenames
                       /\ <<r.executable>> = a.executable
                       /\ r.fresh = a.fresh
            /\ (pc \in {"done", "panic"} /\ status = "success" /\ Len(ex) = 1)
                   => result.tag = "Ok"

\* C2 witness: Ok for a stream with records without an executable path on both
\* sides of the one that has it
C2_Witness ==
    /\ kind = "bin" /\ pc = "done" /\ result.tag = "Ok"
    /\ Len(consumed) = 3
    /\ consumed[1].reason = "compiler-artifact" /\ consumed[1].artifact.executable = None
    /\ consumed[2].reason = "compiler-artifact" /\ consumed[2].artifact.executable # None
    /\ consumed[3].reason = "compiler-artifact" /\ consumed[3].artifact.executable = None

\* what from_stderr returned in this run, as compile hands it on
Classified ==
    LET e == from_stderr(IF stderr_read = "read" THEN Some(stderr) ELSE None)
    IN  Err(IF kind = "bin" THEN e ELSE Build(e))

\* C3: once stdout is drained and the exit status known, the result comes from
\* BuildError::from_stderr exactly when the status is failure: what a failed
\* run accumulated is not returned, and stderr is not read after a success.
C3_ClassifierIffFailure ==
    /\ stderr_read # "unread" => status = "failure" /\ pc = "done"
    /\ (status = "failure" /\ pc # "waited") =>
            /\ stderr_read # "unread"
            /\ pc = "done" /\ result = Classified /\ result.ok = <<>>
            /\ listings = <<>> /\ listed = <<>>
    /\ (status = "success" /\ pc # "waited") =>
            /\ stderr_read = "unread"
            /\ IF kind = "bin" THEN result.tag \in {"Ok", "Panic"}
               ELSE result.tag = "Err" => result.err[1] # "Build"

\* C3 witness: a failed run that had accumulated an artifact returns the
\* classifier's error
C3_Witness ==
    /\ pc = "done" /\ status = "failure" /\ stderr_read = "read"
    /\ artifact # None
    /\ result.tag = "Err" /\ result.err = <<"NotFound">>

\* the kind words and the names a message of the toolchain can hold
KindWords == TextsOf({<<c>> : c \in WordChars}, 2) \ {<<>>}
NameTexts == TextsOf({<<c>> : c \in WordChars}, 2)

\* the text sub stands in s at position i
OccursAt(s, i, sub) ==
    /\ i >= 1 /\ i + Len(sub) - 1 <= Len(s)
    /\ SubSeq(s, i, i + Len(sub) - 1) = sub

Contains(s, sub) == \E i \in 1..(Len(s) + 1) : OccursAt(s, i, sub)

\* compile returned the BuildError e
Returned(e) == result = Err(IF kind = "bin" THEN e ELSE Build(e))

\* the variant of the error compile returned
ReturnedVariant == IF result.tag = "Err" THEN result.err[Len(result.err)] ELSE "none"

\* the toolchain failed and from_stderr has read its stderr
FailedAndRead == pc = "done" /\ status = "failure" /\ stderr_read = "read"

\* C4 as stated: whenever the stderr of a failed run contains the
\* target-not-found message naming X, the result is NotFound carrying X.
C4_Original ==
    \A k \in KindWords, X \in NameTexts :
        (FailedAndRead /\ Contains(stderr, TargetMsg(k, X))) => Returned(NotFound(X))

\* C4 amended: when the stderr of a failed run contains a target-not-found
\* message, anywhere and also beside a package-not-found message, the result
\* is NotFound and never Cargo or PackageNotFound; the name it carries is that
\* of the leftmost match, so it is X when no "error: no " stands before the
\* message naming X.
C4_NotFoundLeftmost ==
    FailedAndRead =>
        \A i \in {j \in 1..Len(stderr) : stderr[j] = ERROR}, k \in KindWords, X \in NameTexts :
            OccursAt(stderr, i, TargetMsg(k, X)) =>
                /\ ReturnedVariant = "NotFound"
                /\ (\A j \in 1..(i - 1) : ~OccursAt(stderr, j, <<ERROR, NO>>))
                       => Returned(NotFound(X))

\* C4 witness: NotFound although a package-not-found message comes first
C4_Witness ==
    /\ FailedAndRead
    /\ OccursAt(stderr, 1, PackageMsg(<<"b">>))
    /\ Contains(stderr, TargetMsg(<<"b">>, <<"a">>))
    /\ Returned(NotFound(<<"a">>))

\* C5 as stated: whenever the stderr of a failed run contains
\* "package ID specification `X` did not match any packages", the result is
\* PackageNotFound carrying X.
C5_Original ==
    \A X \in NameTexts :
        (FailedAndRead
         /\ Contains(stderr, <<PKGSPEC, BACKTICK>> \o X \o <<BACKTICK, NOMATCH>>))
            => Returned(PackageNotFound(X))

\* C5 amended: when the stderr of a failed run contains
\* "error: package ID specification `X` did not match any packages" and does
\* not match the target-not-found pattern, the result is PackageNotFound, and
\* it carries the name of the leftmost match, so X when no
\* "error: package ID specification `" stands before that message; when the
\* target-not-found pattern matches too, the result is NotFound instead.
C5_PackageNotFoundUnlessTarget ==
    FailedAndRead =>
        \A i \in {j \in 1..Len(stderr) : stderr[j] = ERROR}, X \in NameTexts :
            OccursAt(stderr, i, PackageMsg(X)) =>
                IF NOT_FOUND_RE(stderr) # None
                THEN ReturnedVariant = "NotFound"
                ELSE /\ ReturnedVariant = "PackageNotFound"
                     /\ (\A j \in 1..(i - 1) :
                            ~OccursAt(stderr, j, <<ERROR, PKGSPEC, BACKTICK>>))
                           => Returned(PackageNotFound(X))

\* C5 witness: PackageNotFound for a message in the middle of the text
C5_Witness ==
    /\ FailedAndRead
    /\ OccursAt(stderr, 2, PackageMsg(<<"a">>))
    /\ Len(stderr) > 1 + Len(PackageMsg(<<"a">>))
    /\ Returned(PackageNotFound(<<"a">>))

\* C6: when the stderr of a failed run matches neither pattern (as every text
\* without "error: " does), the result is Cargo carrying the whole text as it
\* was read, the empty text included; and Cargo never carries anything else.
C6_CargoVerbatim ==
    FailedAndRead =>
        /\ (NOT_FOUND_RE(stderr) = None /\ PKG_NOT_FOUND_RE(stderr) = None)
               => Returned(Cargo(stderr))
        /\ (\A i \in 1..Len(stderr) : stderr[i] # ERROR) => Returned(Cargo(stderr))
        /\ ReturnedVariant = "Cargo" => result.arg = stderr

\* C6 witness: Cargo for a text that starts like a message and ends in a newline
C6_Witness ==
    /\ FailedAndRead
    /\ Len(stderr) >= 3 /\ stderr[1] = ERROR /\ stderr[Len(stderr)] = NL
    /\ Returned(Cargo(stderr))

\* the diagnostics of a stream, in its order
DiagnosticsOf(c) ==
    LET d == SelectSeq(c, LAMBDA m : m.reason = "compiler-message")
    IN  [i \in 1..Len(d) |-> d[i].message]

\* the records of a stream that are test-profile artifacts
TestMessages(c) ==
    SelectSeq(c, LAMBDA m : m.reason = "compiler-artifact" /\ m.artifact.profile.test)

\* the records of a stream that are test-profile artifacts with an executable path
TestExeMessages(c) == ExeMessages(TestMessages(c))

\* the observer is called once per diagnostic, in order, with the record as
\* it was read; the debug events are emitted with or without an observer
C7_OncePerDiagnostic ==
    /\ cb_calls = IF on_compiler_msg THEN DiagnosticsOf(consumed) ELSE <<>>
    /\ trace = DiagnosticsOf(consumed)

\* a call of the observer, or a debug event, is a step of the parse loop,
\* before wait is called and before compile has returned or panicked
C7_BeforeWait ==
    (cb_calls' # cb_calls \/ trace' # trace) =>
        /\ pc = "parse" /\ pc' = "parse"
        /\ status = "none" /\ status' = "none"
        /\ result = NoResult /\ result' = NoResult
        /\ \E d \in Diagnostics :
            /\ consumed' = Append(consumed, CompilerMessage(d))
            /\ trace' = Append(trace, d)
            /\ cb_calls' \in {cb_calls, Append(cb_calls, d)}

\* what compile returned is fixed by what the children did (the records read,
\* the exit status, the stderr read, the listings), which no observer changes
C7_ResultFromChildren ==
    pc \in {"done", "panic"} =>
        IF result = Panic(ASSERT_ONE_EXECUTABLE)
        THEN kind = "bin" /\ Len(ExeMessages(consumed)) = 2
        ELSE IF status = "none"
        THEN /\ result.tag = "Err" /\ ReturnedVariant = "RunCargo"
             /\ result.arg \in {<<"spawn">>, <<"read">>, <<"wait">>}
        ELSE IF status = "failure"
        THEN result = Classified
        ELSE IF kind = "bin"
        THEN LET ex == ExeMessages(consumed)
             IN  result = bin_success(IF ex = <<>> THEN None ELSE Some(ex[1].artifact))
        ELSE LET ret == TestExeMessages(consumed)
                 n == Len(listings)
                 got(i) == get_artifact_tests(
                               ExecutableArtifact_maybe_from(ret[i].artifact)[1],
                               name, listings[i].out)
             IN  /\ n <= Len(ret)
                 /\ \A i \in 1..(n - 1) : got(i).ok
                 /\ IF n = Len(ret) /\ (n = 0 \/ got(n).ok)
                    THEN result = Ok([i \in 1..n |-> got(i).val[1]])
                    ELSE result = Err(got(n).err)

\* C7: the observer, when registered, is called exactly once per diagnostic
\* record, in stream order, with the record unmodified, each call before the
\* wait for exit and before compile returns, however the run ends; each
\* diagnostic is a debug event with or without an observer; and the result
\* is the one the children's output fixes, the same with no observer.
C7_Observer ==
    /\ [](C7_OncePerDiagnostic /\ C7_ResultFromChildren)
    /\ [][C7_BeforeWait]_vars

\* C7 witness: a failed run in which the observer got two diagnostics, the
\* second different from the first, around an artifact
C7_Witness ==
    /\ on_compiler_msg /\ pc = "done" /\ status = "failure"
    /\ Len(consumed) = 3 /\ consumed[2].reason = "compiler-artifact"
    /\ cb_calls = <<"d2", "d1">>

\* C8 as stated: every test-profile artifact record is retained, in stream
\* order, and no other record is.
C8_Original ==
    kind = "test" =>
        /\ Len(artifacts) = Len(TestMessages(consumed))
        /\ \A i \in 1..Len(artifacts) :
               artifacts[i].target = TestMessages(consumed)[i].artifact.target

\* C8 amended: for a test request every test-profile artifact record that
\* carries an executable path is retained, whatever their number and with no
\* assertion, in stream order; records whose test-profile flag is false are
\* never retained, even with an executable path, and test-profile records
\* without an executable path are dropped.
C8_RetainsTestExecutables ==
    kind = "test" =>
        /\ pc # "panic" /\ result.tag # "Panic"
        /\ Len(artifacts) = Len(TestExeMessages(consumed))
        /\ \A i \in 1..Len(artifacts) :
               LET a == TestExeMessages(consumed)[i].artifact
               IN  /\ artifacts[i].target = a.target
                   /\ artifacts[i].profile.test
                   /\ <<artifacts[i].executable>> = a.executable
                   /\ artifacts[i].package_id = a.package_id

\* C8 witness: two test executables retained around one built without the
\* test profile
C8_Witness ==
    /\ kind = "test" /\ Len(consumed) = 3 /\ Len(artifacts) = 2
    /\ artifacts[1].executable = "e2" /\ artifacts[2].executable = "e1"
    /\ consumed[2].reason = "compiler-artifact"
    /\ consumed[2].artifact.executable # None
    /\ ~consumed[2].artifact.profile.test

\* C9: a test request whose toolchain run succeeds without any test-profile
\* artifact carrying an executable path returns Ok with the empty list, with
\* no error, no panic and no listing invocation; a test-profile artifact
\* without an executable path is dropped without error.
C9_EmptyIsOk ==
    (kind = "test" /\ status = "success" /\ TestExeMessages(consumed) = <<>>) =>
        /\ pc \in {"waited", "list", "done"}
        /\ listings = <<>>
        /\ result.tag \in {"None", "Ok"}
        /\ pc = "done" => result = Ok(<<>>)

\* C9 witness: Ok([]) after a test-profile artifact without an executable
\* path and an executable built without the test profile
C9_Witness ==
    /\ kind = "test" /\ pc = "done" /\ result = Ok(<<>>)
    /\ TestMessages(consumed) # <<>>
    /\ ExeMessages(consumed) # <<>>

\* C10: when test::Compiler::compile returns Ok, the list holds one result
\* per retained artifact, in stream order, and the tests of each are those
\* parsed from the stdout of the listing invocation of that artifact's own
\* executable; an artifact whose listing holds no test is returned with none.
C10_OneResultPerArtifact ==
    (kind = "test" /\ pc = "done" /\ result.tag = "Ok") =>
        LET ret == TestExeMessages(consumed)
        IN  /\ Len(result.ok) = Len(ret)
            /\ Len(listings) = Len(ret)
            /\ \A i \in 1..Len(ret) :
                LET r == result.ok[i]
                IN  /\ r.artifact.target = ret[i].artifact.target
                    /\ <<r.artifact.executable>> = ret[i].artifact.executable
                    /\ listings[i].cmd.program = r.artifact.executable
                    /\ listings[i].out.io = "ok" /\ listings[i].out.success
                    /\ r.tests = parse_libtest_stdout(listings[i].out.stdout).tests

\* C10 witness: two artifacts, the first listing nothing, the second two units
C10_Witness ==
    /\ kind = "test" /\ pc = "done" /\ result.tag = "Ok"
    /\ Len(result.ok) = 2
    /\ result.ok[1].artifact.executable # result.ok[2].artifact.executable
    /\ result.ok[1].tests = <<>>
    /\ Len(result.ok[2].tests) = 2

\* ------------------------------------------- the listing on its own

\* the bytes a listing invocation can write to its stdout
ListingTokens == {"a", "b", COLON, SPACE, TEST, BENCHMARK, NL, BADBYTE}

\* one line of a terse listing
ListingLine(n, t) == n \o <<COLON, SPACE>> \o t \o <<NL>>

\* the pieces a listing stdout is put together from: every token, and whole
\* lines (a test, a benchmark, a unit of another kind, a line without ": ")
ListingSegments ==
    {<<t>> : t \in ListingTokens}
    \cup {ListingLine(<<"a">>, <<TEST>>), ListingLine(<<"b">>, <<BENCHMARK>>),
          ListingLine(<<"b">>, <<"a">>), <<"b", NL>>}

\* a listing invocation that was spawned and waited for: either exit status,
\* any stdout of at most MaxLines segments, and a stderr
ListingOutputs ==
    {Output("ok", s, text, err) :
        s \in BOOLEAN, text \in TextsOf(ListingSegments, MaxLines),
        err \in {<<>>, <<"a", BADBYTE>>}}

\* a test request whose toolchain run built one test binary and succeeded,
\* compile being about to list it
InitParse ==
    /\ kind = "test"
    /\ name = Any
    /\ on_compiler_msg = FALSE
    /\ pc = "list"
    /\ consumed = <<CompilerArtifact(CargoArtifact("t1", Some("e1"), TRUE))>>
    /\ artifact = None
    /\ artifacts =
         <<ExecutableArtifact_maybe_from(CargoArtifact("t1", Some("e1"), TRUE))[1]>>
    /\ cb_calls = <<>>
    /\ trace = <<>>
    /\ status = "success"
    /\ stderr = <<"a", NL>>
    /\ stderr_read = "unread"
    /\ listed = <<>>
    /\ listings = <<>>
    /\ result = NoResult
    /\ child = NoChild
    /\ stdout_pipe = <<>>
    /\ stderr_pipe = <<>>
    /\ config = new(kind)
    /\ calls = 1
    /\ commands = <<toolchain_command>>

ParseList == TestListFrom(ListingOutputs)

NextParse == ParseList \/ TestCollect

SpecParse == InitParse /\ [][NextParse]_vars

\* the listing invocation of the binary has ended with success and its stdout
\* is valid UTF-8: parse_libtest_stdout has been given that text
Parsed ==
    /\ Len(listings) = 1
    /\ listings[1].out.io = "ok" /\ listings[1].out.success
    /\ from_utf8(listings[1].out.stdout) # None

\* every line of the text matches the grammar
AllLinesMatch(text) == \A i \in 1..Len(lines(text)) : LINE_RE(lines(text)[i]) # None

\* the lines of the text whose kind is test or benchmark, in line order
UnitLines(text) ==
    SelectSeq(lines(text),
              LAMBDA l : LINE_RE(l) # None
                         /\ LINE_RE(l)[1].t \in {<<TEST>>, <<BENCHMARK>>})

\* C11: for a listing text whose lines all match the grammar of a name, a
\* colon and space, and a kind, parse_libtest_stdout returns, in line order,
\* exactly the lines of kind test (as Test) and benchmark (as Bench); a line of
\* another kind is dropped alone and raises no parse failure.
C11_UnitsInLineOrder ==
    (Parsed /\ AllLinesMatch(listings[1].out.stdout)) =>
        LET units == UnitLines(listings[1].out.stdout)
        IN  /\ result.tag \in {"None", "Ok"}
            /\ Len(listed) = 1
            /\ Len(listed[1].tests) = Len(units)
            /\ \A i \in 1..Len(units) :
                /\ listed[1].tests[i].name = LINE_RE(units[i])[1].n
                /\ listed[1].tests[i].test_type =
                     IF LINE_RE(units[i])[1].t = <<TEST>> THEN "Test" ELSE "Bench"

\* C11 witness: a benchmark and a test returned around a dropped line of
\* another kind
C11_Witness ==
    /\ Parsed /\ pc = "done" /\ result.tag = "Ok"
    /\ Len(lines(listings[1].out.stdout)) = 3
    /\ LINE_RE(lines(listings[1].out.stdout)[2]) # None
    /\ LINE_RE(lines(listings[1].out.stdout)[2])[1].t = <<"a">>
    /\ Len(result.ok[1].tests) = 2
    /\ result.ok[1].tests[1].test_type = "Bench"
    /\ result.ok[1].tests[2].test_type = "Test"

\* C12: when a line of the listing text does not match the grammar, wherever
\* it stands, the discovery for the artifact is the Parse failure carrying the
\* whole stdout text, and no unit parsed from the lines before it is returned.
C12_ParseFailureIsWhole ==
    (Parsed /\ ~AllLinesMatch(listings[1].out.stdout)) =>
        /\ result = Err(Parse(listings[1].out.stdout))
        /\ pc = "done"
        /\ listed = <<>>

\* C12 witness: the failing line is the last of three, after two units
C12_Witness ==
    /\ Parsed /\ result.tag = "Err"
    /\ Len(lines(listings[1].out.stdout)) = 3
    /\ LINE_RE(lines(listings[1].out.stdout)[1]) # None
    /\ LINE_RE(lines(listings[1].out.stdout)[1])[1].t = <<TEST>>
    /\ LINE_RE(lines(listings[1].out.stdout)[2]) # None
    /\ LINE_RE(lines(listings[1].out.stdout)[3]) = None

\* C13: when a listing invocation exits with a non-zero status the result is
\* Libtest carrying that invocation's stderr (decoded lossily), whatever its
\* stdout holds: stdout is neither decoded nor parsed and no Artifact is
\* produced for the binary.
C13_LibtestOnFailure ==
    \A i \in 1..Len(listings) :
        (listings[i].out.io = "ok" /\ ~listings[i].out.success) =>
            /\ i = Len(listings)
            /\ result = Err(Libtest(from_utf8_lossy(listings[i].out.stderr)))
            /\ pc = "done"
            /\ Len(listed) = i - 1

\* C13 witness: a failed listing whose stdout is a well-formed listing, and
\* one whose stdout is not valid UTF-8
C13_Witness ==
    /\ Len(listings) = 1 /\ listings[1].out.io = "ok" /\ ~listings[1].out.success
    /\ listings[1].out.stderr # <<>>
    /\ \/ listings[1].out.stdout = ListingLine(<<"a">>, <<TEST>>)
       \/ from_utf8(listings[1].out.stdout) = None

\* the filter arguments the claims state for a name policy
FilterArgs(n) ==
    CASE n = Any              -> <<>>
      [] n[1] = "Substring"   -> <<n[2]>>
      [] n[1] = "Exact"       -> <<"--exact", n[2]>>

\* C14: the run arguments are a total function of the name policy:
\* Artifact::run_args gives nothing for the match-everything policy, the
\* substring alone for the substring policy, and "--exact" and the name for the
\* exact policy; TestFn::run_args gives "--exact" and the unit's own name,
\* whatever the policy that discovered it.
C14_RunArgs ==
    \A i \in 1..Len(listed) :
        /\ Artifact_run_args(listed[i]) = FilterArgs(listed[i].name_spec)
        /\ \A j \in 1..Len(listed[i].tests) :
               TestFn_run_args(listed[i].tests[j]) =
                   <<"--exact", listed[i].tests[j].name>>

\* C14 witness: an Artifact discovered with the substring policy is returned
\* with its units
C14_Witness ==
    /\ kind = "test" /\ pc = "done" /\ result.tag = "Ok" /\ Len(result.ok) >= 1
    /\ result.ok[1].name_spec = Substring("a")
    /\ Artifact_run_args(result.ok[1]) = <<"a">>
    /\ Len(result.ok[1].tests) = 2
    /\ TestFn_run_args(result.ok[1].tests[2]) = <<"--exact", <<"a">>>>

\* C15: each listing invocation spawns the executable of the built artifact
\* itself, with "--list", "--format=terse" and then the filter arguments of the
\* policy: "--exact" and the name, the bare substring, or nothing.
C15_ListingCommand ==
    /\ Len(listings) <= Len(artifacts)
    /\ \A i \in 1..Len(listings) :
        /\ listings[i].cmd.program = artifacts[i].executable
        /\ <<listings[i].cmd.program>> = TestExeMessages(consumed)[i].artifact.executable
        /\ listings[i].cmd.args =
             CASE name = Any            -> <<"--list", "--format=terse">>
               [] name[1] = "Substring" -> <<"--list", "--format=terse", name[2]>>
               [] name[1] = "Exact"     -> <<"--list", "--format=terse", "--exact", name[2]>>

\* C15 witness: the second of two test binaries is listed under the exact policy
C15_Witness ==
    /\ name = Exact("a") /\ Len(listings) = 2
    /\ listings[2].cmd.program = "e1"
    /\ listings[1].cmd.program = "e2"

\* C16: every Artifact compile returns holds the name policy of the Compiler
\* at that call, so its run_args() are the filter arguments its listing
\* invocation was given, and the listing command rebuilt from the returned
\* Artifact is the command that discovered its units.
C16_PolicyRetained ==
    (kind = "test" /\ pc = "done" /\ result.tag = "Ok") =>
        \A i \in 1..Len(result.ok) :
            /\ result.ok[i].name_spec = name
            /\ <<"--list", "--format=terse">> \o Artifact_run_args(result.ok[i])
                   = listings[i].cmd.args
            /\ result.ok[i].artifact.executable = listings[i].cmd.program

\* C16 witness: two Artifacts returned under the exact policy
C16_Witness ==
    /\ kind = "test" /\ pc = "done" /\ result.tag = "Ok" /\ Len(result.ok) = 2
    /\ name = Exact("a")
    /\ Artifact_run_args(result.ok[2]) = <<"--exact", "a">>
    /\ Len(listings[2].cmd.args) = 4

\* ------------------------------------------- the child and its pipes

\* what the toolchain child does next: write a record to stdout, write to
\* stderr, or close its stdout before it exits
StdoutWrite(r) == [op |-> "stdout", arg |-> r]
StderrWrite    == [op |-> "stderr", arg |-> "a"]
CloseStdout    == [op |-> "close", arg |-> ""]

\* the records the child of SpecPipes writes, by the reason they carry
PipeMessages == {"compiler-message", "compiler-artifact"}

\* the record the message iterator parses from what the child wrote
PipeMessage(r) ==
    IF r = "compiler-message" THEN CompilerMessage("d1")
    ELSE CompilerArtifact(CargoArtifact("t1", Some("e1"), TRUE))

ChildOps == {StdoutWrite(r) : r \in PipeMessages} \cup {StderrWrite, CloseStdout}

\* the child closes stdout at most once and does not write to it afterwards
WellFormed(p) ==
    \A i, j \in 1..Len(p) :
        (i < j /\ p[i].op = "close") => p[j].op = "stderr"

\* what a child does before it exits: at most n writes and closes, in any order
Programs(n) == {p \in TextsOf({<<o>> : o \in ChildOps}, n) : WellFormed(p)}

\* Compiler::new, and the child the toolchain command will run
InitPipes ==
    /\ kind \in {"bin", "test"}
    /\ name = Any
    /\ on_compiler_msg = FALSE
    /\ pc = "new"
    /\ consumed = <<>>
    /\ artifact = None
    /\ artifacts = <<>>
    /\ cb_calls = <<>>
    /\ trace = <<>>
    /\ status = "none"
    /\ stderr = <<>>
    /\ stderr_read = "unread"
    /\ listed = <<>>
    /\ listings = <<>>
    /\ result = NoResult
    /\ child \in {[state |-> "none", program |-> p, stdout |-> "open", status |-> "none"] :
                    p \in Programs(MaxWrites)}
    /\ stdout_pipe = <<>>
    /\ stderr_pipe = <<>>
    /\ config = new(kind)
    /\ calls = 1
    /\ commands = <<>>

\* the command is spawned with stdout and stderr piped: the child starts
PipeSpawn ==
    /\ pc = "new"
    /\ commands' = Append(commands, toolchain_command)
    /\ \/ /\ Return(Err(IF kind = "bin" THEN RunCargo("spawn")
                                         ELSE Build(RunCargo("spawn"))))
          /\ UNCHANGED <<child, artifact, artifacts>>
       \/ /\ pc' = "parse"
          /\ child' = [child EXCEPT !.state = "running"]
          /\ artifact' = None /\ artifacts' = <<>>
          /\ UNCHANGED result
    /\ UNCHANGED <<kind, name, on_compiler_msg, config, calls, consumed, cb_calls,
                   trace, status, stderr, stderr_read, listed, listings,
                   stdout_pipe, stderr_pipe>>

\* mutant: the records read only once the child has exited
PipeRead_after_exit ==
    /\ pc = "parse"
    /\ child.state = "exited"
    /\ stdout_pipe # <<>>
    /\ stdout_pipe' = Tail(stdout_pipe)
    /\ IF kind = "bin"
       THEN BinLoopBody(PipeMessage(Head(stdout_pipe))) /\ UNCHANGED artifacts
       ELSE TestLoopBody(PipeMessage(Head(stdout_pipe))) /\ UNCHANGED <<artifact, pc, result>>
    /\ UNCHANGED <<kind, name, on_compiler_msg, config, calls, commands, status, stderr, stderr_read, listed,
                   listings, child, stderr_pipe>>

\* the message iterator reads the next record from the stdout pipe: one turn of
\* the loop of either compile
PipeRead ==
    /\ pc = "parse"
    /\ stdout_pipe # <<>>
    /\ stdout_pipe' = Tail(stdout_pipe)
    /\ IF kind = "bin"
       THEN BinLoopBody(PipeMessage(Head(stdout_pipe))) /\ UNCHANGED artifacts
       ELSE TestLoopBody(PipeMessage(Head(stdout_pipe))) /\ UNCHANGED <<artifact, pc, result>>
    /\ UNCHANGED <<kind, name, on_compiler_msg, config, calls, commands, status, stderr, stderr_read, listed,
                   listings, child, stderr_pipe>>

\* the read of stdout fails: `msg?` returns the error
PipeReadError ==
    /\ pc = "parse"
    /\ Return(Err(IF kind = "bin" THEN RunCargo("read") ELSE Build(RunCargo("read"))))
    /\ UNCHANGED <<pipes, kind, name, on_compiler_msg, config, calls, commands, consumed, artifact, artifacts,
                   cb_calls, trace, status, stderr, stderr_read, listed, listings>>

\* mutant: the loop left as soon as no record is waiting in the pipe
PipeEof_when_empty ==
    /\ pc = "parse"
    /\ stdout_pipe = <<>>
    /\ pc' = "eof"
    /\ UNCHANGED <<pipes, kind, name, on_compiler_msg, config, calls, commands, consumed, artifact, artifacts,
                   cb_calls, trace, status, stderr, stderr_read, listed, listings, result>>

\* the read finds the pipe empty and its write end closed: the stream ends
PipeEof ==
    /\ pc = "parse"
    /\ stdout_pipe = <<>>
    /\ child.stdout = "closed"
    /\ pc' = "eof"
    /\ UNCHANGED <<pipes, kind, name, on_compiler_msg, config, calls, commands, consumed, artifact, artifacts,
                   cb_calls, trace, status, stderr, stderr_read, listed, listings, result>>

\* cmd.wait() returns the status of the child that has exited, what it wrote
\* to stderr waiting in the pipe
PipeWait ==
    /\ child.state = "exited"
    /\ Wait(child.status, stderr_pipe)
    /\ UNCHANGED <<pipes, kind, name, on_compiler_msg, config, calls, commands, consumed, artifact, artifacts,
                   cb_calls, trace, stderr_read, listed, listings>>

\* cmd.wait() fails
PipeWaitError ==
    /\ Wait("error", stderr_pipe)
    /\ UNCHANGED <<pipes, kind, name, on_compiler_msg, config, calls, commands, consumed, artifact, artifacts,
                   cb_calls, trace, stderr_read, listed, listings>>

\* compile, or artifacts_ignoring_name, has been left: the read ends of both
\* pipes are dropped
ReadersDropped == pc \in {"list", "done", "panic"}

\* the engine's variables, which no step of the child changes
engine == <<kind, name, on_compiler_msg, config, calls, commands, pc, consumed, artifact, artifacts, cb_calls,
            trace, status, stderr, stderr_read, listed, listings, result>>

\* the child is at the write of a record to its stdout
AtStdoutWrite ==
    child.state = "running" /\ child.program # <<>> /\ Head(child.program).op = "stdout"

\* the child is at a write to its stderr
AtStderrWrite ==
    child.state = "running" /\ child.program # <<>> /\ Head(child.program).op = "stderr"

\* the child writes a record to stdout, once the pipe has room
ChildWrite ==
    /\ AtStdoutWrite /\ ~ReadersDropped
    /\ Len(stdout_pipe) < PipeCap
    /\ stdout_pipe' = Append(stdout_pipe, Head(child.program).arg)
    /\ child' = [child EXCEPT !.program = Tail(@)]
    /\ UNCHANGED <<engine, stderr_pipe>>

\* the child writes to stderr, once the pipe has room
ChildWriteStderr ==
    /\ AtStderrWrite /\ ~ReadersDropped
    /\ Len(stderr_pipe) < PipeCap
    /\ stderr_pipe' = Append(stderr_pipe, Head(child.program).arg)
    /\ child' = [child EXCEPT !.program = Tail(@)]
    /\ UNCHANGED <<engine, stdout_pipe>>

\* a write to a pipe whose read end is dropped fails at once: the child dies
\* of it, or goes on
ChildBrokenPipe ==
    /\ AtStdoutWrite \/ AtStderrWrite
    /\ ReadersDropped
    /\ \/ child' = [child EXCEPT !.state = "exited", !.stdout = "closed",
                                 !.status = "failure"]
       \/ child' = [child EXCEPT !.program = Tail(@)]
    /\ UNCHANGED <<engine, stdout_pipe, stderr_pipe>>

ChildCloseStdout ==
    /\ child.state = "running" /\ child.program # <<>>
    /\ Head(child.program).op = "close"
    /\ child' = [child EXCEPT !.program = Tail(@), !.stdout = "closed"]
    /\ UNCHANGED <<engine, stdout_pipe, stderr_pipe>>

\* the child exits, which closes its ends of the pipes
ChildExit ==
    /\ child.state = "running" /\ child.program = <<>>
    /\ \E w \in {"success", "failure"} :
         child' = [child EXCEPT !.state = "exited", !.stdout = "closed", !.status = w]
    /\ UNCHANGED <<engine, stdout_pipe, stderr_pipe>>

NextPipes ==
    \/ PipeSpawn \/ PipeRead \/ PipeReadError \/ PipeEof \/ PipeWait \/ PipeWaitError
    \/ BinReturn \/ TestReturn \/ TestList \/ TestCollect
    \/ ChildWrite \/ ChildWriteStderr \/ ChildBrokenPipe \/ ChildCloseStdout \/ ChildExit

\* the steps the engine's thread takes when it can: all but the failures
EngineSteps ==
    \/ PipeSpawn \/ PipeRead \/ PipeEof \/ PipeWait
    \/ BinReturn \/ TestReturn \/ TestList \/ TestCollect

\* the steps the child process takes when it can
ChildSteps ==
    \/ ChildWrite \/ ChildWriteStderr \/ ChildBrokenPipe \/ ChildCloseStdout \/ ChildExit

\* the engine's thread and the child process are both scheduled
SpecPipes == InitPipes /\ [][NextPipes]_vars /\ WF_vars(EngineSteps) /\ WF_vars(ChildSteps)

\* every record the child wrote to stdout has been read, and the write end is closed
StdoutAtEof == stdout_pipe = <<>> /\ child.stdout = "closed"

\* cmd.wait() has been called: it is blocking, has given the status, or has failed
WaitIssued ==
    \/ pc \in {"eof", "waited"}
    \/ status # "none"
    \/ result.tag = "Err" /\ result.arg = <<"wait">>

\* C17: in every run the toolchain's stdout is read to end-of-file before the
\* wait for exit is issued, and stderr is read only after the exit status is
\* known and only when it is failure; no stderr is read while stdout is parsed.
C17_Ordered ==
    /\ WaitIssued => StdoutAtEof
    /\ pc \in {"new", "parse", "eof"} => (status = "none" /\ stderr_read = "unread")
    /\ stderr_read # "unread" => status = "failure"

\* C17 witness: a run that read two records, waited, and read the stderr of the
\* child that failed
C17_Witness ==
    /\ pc = "done" /\ Len(consumed) = 2 /\ status = "failure"
    /\ stderr_read = "read" /\ stderr # <<>>
    /\ child.state = "exited"

\* the child is blocked at a write to stderr, that pipe being full
StalledOnStderr == AtStderrWrite /\ ~ReadersDropped /\ Len(stderr_pipe) = PipeCap

\* the child is blocked at a write to stdout, that pipe being full
StalledOnStdout == AtStdoutWrite /\ ~ReadersDropped /\ Len(stdout_pipe) = PipeCap

\* the engine is blocked in a read of stdout that has nothing to return, or in
\* the wait for a child that has not exited
EngineBlocked ==
    \/ pc = "parse" /\ stdout_pipe = <<>> /\ child.stdout = "open"
    \/ pc = "eof" /\ child.state # "exited"

\* C18: the engine drains both pipes of the child concurrently, so no state is
\* reachable in which the child is blocked writing to a full stderr pipe while
\* the engine is blocked reading stdout or waiting for the exit.
C18_NoPipeDeadlock == ~(StalledOnStderr /\ EngineBlocked)

\* C19: every subprocess the engine spawned has had its output drained and its
\* exit waited for when the operation returns a result, typed errors included.
C19_DrainedAndWaited ==
    (pc = "done" /\ child.state # "none") =>
        /\ StdoutAtEof
        /\ WaitIssued
        /\ \A i \in 1..Len(listings) : listings[i].out.io \in {"ok", "wait"}

\* the writes to stderr in a program
ErrWrites(p) == Cardinality({i \in 1..Len(p) : p[i].op = "stderr"})

\* C20: the parse loop reads while the child runs and ends exactly when stdout
\* is at end-of-file, the child having exited or only closed stdout; a child
\* blocked at a write to a full stdout pipe does not stay blocked forever; and
\* when what the child writes to stderr fits the pipe, compile ends.
C20_ParsesUntilEof ==
    /\ [][(pc = "parse" /\ pc' = "eof") => StdoutAtEof]_vars
    /\ (pc = "parse" /\ StdoutAtEof) ~> (pc # "parse")
    /\ StalledOnStdout ~> ~StalledOnStdout
    /\ (ErrWrites(child.program) <= PipeCap) => <>(pc \in {"done", "panic"})

\* C20 witness: the loop has read more records than the pipe holds and has
\* ended, the child having closed stdout but still running
C20_Witness ==
    /\ pc = "eof" /\ Len(consumed) > PipeCap
    /\ child.state = "running" /\ child.stdout = "closed"

\* --------------------------------------------------- failures to run cargo

\* cargo itself could not be spawned (the listing's spawn error is Execute)
SpawnFailed ==
    /\ result.tag = "Err" /\ result.arg = <<"spawn">>
    /\ result.err \in {<<"RunCargo">>, <<"Build", "RunCargo">>}

\* C21 as stated: a failure to spawn is reported at once as RunCargo, and no
\* run in which the toolchain exited with failure returns RunCargo.
C21_Original ==
    /\ SpawnFailed =>
          /\ pc = "done"
          /\ consumed = <<>> /\ cb_calls = <<>> /\ status = "none"
    /\ (pc = "done" /\ status = "failure") => ReturnedVariant # "RunCargo"

\* C21: a failure to spawn the toolchain ends the call in that step with
\* RunCargo (inside Build for a test request): no record is read, the observer
\* is not called, the child is not waited for, stderr is not read and nothing
\* is listed. RunCargo differs from the categories that classify the stderr of
\* a toolchain that exited with failure (NotFound, PackageNotFound, Cargo); it
\* is also what a failed read of that stderr gives.
C21_SpawnFailureImmediate ==
    /\ [][(pc = "new" /\ pc' # "parse") =>
             /\ pc' = "done"
             /\ result' = Err(IF kind = "bin" THEN RunCargo("spawn")
                                              ELSE Build(RunCargo("spawn")))
             /\ UNCHANGED <<consumed, cb_calls, trace, status, stderr_read,
                            listed, listings>>]_vars
    /\ [](SpawnFailed =>
             /\ pc = "done"
             /\ consumed = <<>> /\ cb_calls = <<>> /\ trace = <<>>
             /\ status = "none" /\ stderr_read = "unread" /\ listings = <<>>)
    /\ [](FailedAndRead => ReturnedVariant \in {"NotFound", "PackageNotFound", "Cargo"})

C21_Witness == SpawnFailed /\ pc = "done" /\ Len(commands) = 1

\* C22: when the toolchain exited with failure and read_to_string on its
\* stderr fails, the result is RunCargo carrying that I/O error (inside Build
\* for a test request) whatever the child wrote: the patterns are not applied
\* and the result is none of NotFound, PackageNotFound, Cargo.
C22_StderrReadError ==
    stderr_read = "error" =>
        /\ pc = "done" /\ status = "failure"
        /\ result.tag = "Err" /\ result.ok = <<>>
        /\ result.err = (IF kind = "bin" THEN <<"RunCargo">> ELSE <<"Build", "RunCargo">>)
        /\ result.arg = <<"read_to_string">>
        /\ ReturnedVariant \notin {"NotFound", "PackageNotFound", "Cargo"}

\* C22 witness: the read fails on a stderr whose text names a missing target
C22_Witness ==
    /\ stderr_read = "error" /\ pc = "done"
    /\ NOT_FOUND_RE(stderr) # None
    /\ ReturnedVariant = "RunCargo"

\* ------------------------------------------------- success without a binary

\* C23: when bin::Compiler::compile saw the toolchain exit with success and no
\* record of the stream carried an executable path, the call panics with the
\* message of expect ("should have built an executable"): it returns neither
\* Ok nor any BuildError, NotFound included, and stderr is not read.
C23_SuccessWithoutBinaryPanics ==
    (kind = "bin" /\ status = "success" /\ pc # "waited"
        /\ ExeMessages(consumed) = <<>>) =>
        /\ pc = "panic"
        /\ result = Panic(EXPECT_BUILT)
        /\ result.tag \notin {"Ok", "Err"}
        /\ stderr_read = "unread"

\* C23 witness: the panic after a stream that held an artifact record without
\* an executable path
C23_Witness ==
    /\ kind = "bin" /\ status = "success" /\ pc = "panic"
    /\ result.arg = <<EXPECT_BUILT>>
    /\ \E i \in 1..Len(consumed) :
          /\ consumed[i].reason = "compiler-artifact"
          /\ consumed[i].artifact.executable = None

\* ------------------------------------------------- records of other kinds

\* the stream with the records that are neither diagnostics nor artifacts removed
WithoutOther(c) ==
    SelectSeq(c, LAMBDA m : m.reason \in {"compiler-message", "compiler-artifact"})

\* the step that reads a record of another kind changes nothing but the
\* position in the stream
C24_OtherStep ==
    consumed' = Append(consumed, OtherMessage) =>
        /\ pc = "parse"
        /\ UNCHANGED <<pc, result, artifact, artifacts, cb_calls, trace, status,
                       stderr_read, listed, listings>>

\* the accumulators, the observer's calls and the result of a success are
\* those of the stream with the other records removed
C24_FromTheRest ==
    LET c == WithoutOther(consumed)
        ex == ExeMessages(c)
        tex == TestExeMessages(c)
    IN  /\ kind = "bin" =>
              artifact = IF ex = <<>> THEN None ELSE Some(ex[1].artifact)
        /\ kind = "test" =>
              artifacts = [i \in 1..Len(tex) |->
                              ExecutableArtifact_maybe_from(tex[i].artifact)[1]]
        /\ trace = DiagnosticsOf(c)
        /\ cb_calls = IF on_compiler_msg THEN DiagnosticsOf(c) ELSE <<>>
        /\ (kind = "bin" /\ status = "success" /\ pc \in {"done", "panic"}) =>
              result = IF ex = <<>> THEN Panic(EXPECT_BUILT)
                       ELSE Ok(ExecutableArtifact_maybe_from(ex[1].artifact))
        /\ (kind = "test" /\ result.tag = "Ok") =>
              /\ Len(result.ok) = Len(tex)
              /\ \A i \in 1..Len(tex) :
                    result.ok[i].artifact =
                        ExecutableArtifact_maybe_from(tex[i].artifact)[1]

\* C24: a stdout record that is neither a diagnostic nor a compiler-artifact
\* leaves the accumulator as it was, calls no observer and neither ends nor
\* fails the parse; what compile accumulates and returns is what the stream
\* without such records gives, wherever they stand in it.
C24_OtherRecordsIgnored ==
    /\ [][C24_OtherStep]_vars
    /\ []C24_FromTheRest

\* C24 witness: Ok for the executable that stands between two records of
\* another kind
C24_Witness ==
    /\ kind = "bin" /\ pc = "done" /\ result.tag = "Ok"
    /\ Len(consumed) = 3
    /\ consumed[1] = OtherMessage /\ consumed[3] = OtherMessage
    /\ artifact = Some(consumed[2].artifact)

\* ------------------------------------------------ the request and its setters

\* the values the caller gives to the constructors and the setters
Workspaces == {"w"}
TargetDirs == {"t"}
PackageSpecs == {PackageSpec_Any, Name("p"), Id("p 0.1.0 (path+file:///p)")}
FeatureLists == {<<>>, <<"f1">>, <<"f1", "f2">>}
FeatureSpecs ==
    {FeatureSpec_All} \cup {Subset(d, fs) : d \in BOOLEAN, fs \in FeatureLists}
TypeSpecs ==
    {Lib, Bin("a"), Bins, Integration("a"), Integrations, Example("a"), Examples,
     Doc, TypeSpec_All}

\* a setter stores its argument in the Compiler, before compile is called
Set(c) ==
    /\ pc = "new"
    /\ config' = c
    /\ UNCHANGED <<pipes, kind, name, on_compiler_msg, calls, commands, pc, consumed,
                   artifact, artifacts, cb_calls, trace, status, stderr, stderr_read,
                   listed, listings, result>>

workspace(path) == Set([config EXCEPT !.workspace = Some(path)])
package(p) == Set([config EXCEPT !.package = p])
target_dir(dir) == Set([config EXCEPT !.target_dir = Some(dir)])
features(f) == Set([config EXCEPT !.features = Some(f)])
release(is_release) == Set([config EXCEPT !.is_release = is_release])

\* the setter of the observer
set_on_compiler_msg ==
    /\ pc = "new"
    /\ on_compiler_msg' = TRUE
    /\ UNCHANGED <<pipes, kind, name, config, calls, commands, pc, consumed,
                   artifact, artifacts, cb_calls, trace, status, stderr, stderr_read,
                   listed, listings, result>>

Setters ==
    \/ \E path \in Workspaces : workspace(path)
    \/ \E p \in PackageSpecs : package(p)
    \/ \E dir \in TargetDirs : target_dir(dir)
    \/ \E f \in FeatureSpecs : features(f)
    \/ \E is_release \in BOOLEAN : release(is_release)

\* a Compiler as one of the constructors gives it, for every selector; then
\* setters, then compile builds its command and spawns it
InitArgs ==
    /\ kind \in {"bin", "test"}
    /\ name = Any
    /\ on_compiler_msg = FALSE
    /\ config \in IF kind = "bin"
                  THEN {Compiler("a", is_example, TypeSpec_All) : is_example \in BOOLEAN}
                  ELSE {Compiler("", FALSE, t) : t \in TypeSpecs}
    /\ calls = 1
    /\ commands = <<>>
    /\ pc = "new"
    /\ consumed = <<>>
    /\ artifact = None
    /\ artifacts = <<>>
    /\ cb_calls = <<>>
    /\ trace = <<>>
    /\ status = "none"
    /\ stderr = <<>>
    /\ stderr_read = "unread"
    /\ listed = <<>>
    /\ listings = <<>>
    /\ result = NoResult
    /\ child = NoChild
    /\ stdout_pipe = <<>>
    /\ stderr_pipe = <<>>

NextArgs == Setters \/ BinSpawn \/ TestSpawn

SpecArgs == InitArgs /\ [][NextArgs]_vars

\* the selector a request ends its arguments with
Selector ==
    IF kind = "bin"
    THEN IF config.is_example THEN <<"--example", config.name>>
                              ELSE <<"--bin", config.name>>
    ELSE LET t == config.test_type
         IN  CASE t = <<"Lib">>            -> <<"--lib">>
               [] t = <<"Bin", "a">>       -> <<"--bin", "a">>
               [] t = <<"Bins">>           -> <<"--bins">>
               [] t = <<"Integration", "a">> -> <<"--test", "a">>
               [] t = <<"Integrations">>   -> <<"--test", "*">>
               [] t = <<"Doc">>            -> <<"--doc">>
               [] t = <<"Example", "a">>   -> <<"--example", "a">>
               [] t = <<"Examples">>       -> <<"--examples">>
               [] t = <<"All">>            -> <<>>

\* C25: the arguments given to cargo are, in this order: the subcommand
\* (build, or test --no-run), the message-format flag asking for JSON with
\* ANSI-rendered diagnostics, --package and the package token (* for any
\* package), the feature arguments, --release exactly when release mode is
\* set (it is unset in a new Compiler), --target-dir and the path when set,
\* and last the selector of the request.
C25_ArgumentVector ==
    \A i \in 1..Len(commands) :
        /\ commands[i].program = "cargo"
        /\ commands[i].args =
               (IF kind = "bin" THEN <<"build">> ELSE <<"test", "--no-run">>)
               \o <<"--message-format=json-diagnostic-rendered-ansi">>
               \o <<"--package",
                    IF config.package = <<"Any">> THEN "*" ELSE config.package[2]>>
               \o (IF config.features = None THEN <<>> ELSE to_args(config.features[1]))
               \o (IF config.is_release THEN <<"--release">> ELSE <<>>)
               \o (IF config.target_dir = None THEN <<>>
                   ELSE <<"--target-dir", config.target_dir[1]>>)
               \o Selector

\* C25 witness: a test request with every setter used, and an executable
\* request spawned as constructed
C25_Witness ==
    \/ /\ kind = "test" /\ pc = "parse"
       /\ commands = <<[program |-> "cargo",
                        args |-> <<"test", "--no-run",
                                   "--message-format=json-diagnostic-rendered-ansi",
                                   "--package", "p", "--features", "f1,f2",
                                   "--no-default-features", "--release",
                                   "--target-dir", "t", "--test", "*">>,
                        current_dir |-> Some("w")]>>
    \/ /\ kind = "bin" /\ pc = "parse" /\ config = Compiler("a", TRUE, TypeSpec_All)
       /\ commands[1].args = <<"build", "--message-format=json-diagnostic-rendered-ansi",
                               "--package", "*", "--example", "a">>

\* the arguments of a command that select features: the three flags and the
\* list that follows --features
FeatureFlags == {"--all-features", "--features", "--no-default-features"}

FeatureArgsOf(a) ==
    LET at == SelectSeq([i \in 1..Len(a) |-> i],
                        LAMBDA i : \/ a[i] \in FeatureFlags
                                   \/ (i > 1 /\ a[i - 1] = "--features"))
    IN  [k \in 1..Len(at) |-> a[at[k]]]

\* C26: with all features the feature arguments are --all-features alone; a
\* subset gives --features and the names joined by commas only when the list
\* is not empty, then --no-default-features only when the defaults are left
\* out; a request without a feature selector passes no feature argument.
C26_FeatureArgs ==
    \A i \in 1..Len(commands) :
        LET got == FeatureArgsOf(commands[i].args)
            f == config.features
        IN  IF f = None THEN got = <<>>
            ELSE IF f[1].all THEN got = <<"--all-features">>
            ELSE got =
                   (CASE f[1].features = <<>>           -> <<>>
                      [] f[1].features = <<"f1">>       -> <<"--features", "f1">>
                      [] f[1].features = <<"f1", "f2">> -> <<"--features", "f1,f2">>)
                   \o (IF f[1].include_default THEN <<>>
                       ELSE <<"--no-default-features">>)

\* C26 witness: the empty list without defaults, and two names with them
C26_Witness ==
    /\ pc = "parse"
    /\ \/ /\ config.features = Some(Subset(FALSE, <<>>))
          /\ FeatureArgsOf(commands[1].args) = <<"--no-default-features">>
       \/ /\ config.features = Some(Subset(TRUE, <<"f1", "f2">>))
          /\ FeatureArgsOf(commands[1].args) = <<"--features", "f1,f2">>

\* ------------------------------------------- the children of one test call

\* cmd.spawn() of get_artifact_tests for the next artifact: it fails, or the
\* listing child runs and will do out
ListSpawn ==
    /\ kind = "test" /\ pc = "list"
    /\ Len(listed) < Len(artifacts)
    /\ \E out \in ListingSamples :
        LET a == into_iter_next(artifacts, listed)
        IN  /\ listings' = Append(listings, [cmd |-> listing_command(a, name), out |-> out])
            /\ IF out.io = "spawn"
               THEN Return(Err(get_artifact_tests(a, name, out).err))
               ELSE pc' = "listing" /\ UNCHANGED result
    /\ UNCHANGED <<pipes, kind, name, on_compiler_msg, config, calls, commands, consumed,
                   artifact, artifacts, cb_calls, trace, status, stderr, stderr_read,
                   listed>>

\* mutant: a listing that failed is asked for again
ListExit_retries ==
    /\ kind = "test" /\ pc = "listing"
    /\ LET a == into_iter_next(artifacts, listed)
           r == get_artifact_tests(a, name, listings[Len(listings)].out)
       IN  IF r.ok
           THEN /\ listed' = listed \o r.val
                /\ pc' = "list"
                /\ UNCHANGED result
           ELSE /\ pc' = "list"
                /\ UNCHANGED <<listed, result>>
    /\ UNCHANGED <<pipes, kind, name, on_compiler_msg, config, calls, commands, consumed,
                   artifact, artifacts, cb_calls, trace, status, stderr, stderr_read,
                   listings>>

\* wait_with_output returns, the listing child having exited, and the rest of
\* get_artifact_tests runs on its output; collect stops at an Err
ListExit ==
    /\ kind = "test" /\ pc = "listing"
    /\ LET a == into_iter_next(artifacts, listed)
           r == get_artifact_tests(a, name, listings[Len(listings)].out)
       IN  IF r.ok
           THEN /\ listed' = listed \o r.val
                /\ pc' = "list"
                /\ UNCHANGED result
           ELSE /\ Return(Err(r.err))
                /\ UNCHANGED listed
    /\ UNCHANGED <<pipes, kind, name, on_compiler_msg, config, calls, commands, consumed,
                   artifact, artifacts, cb_calls, trace, status, stderr, stderr_read,
                   listings>>

NextSeq ==
    \/ PipeSpawn \/ PipeRead \/ PipeReadError \/ PipeEof \/ PipeWait \/ PipeWaitError
    \/ BinReturn \/ TestReturn \/ ListSpawn \/ ListExit \/ TestCollect
    \/ ChildWrite \/ ChildWriteStderr \/ ChildBrokenPipe \/ ChildCloseStdout \/ ChildExit

\* a call followed child by child: the toolchain, then each listing child
SpecSeq == InitPipes /\ [][NextSeq]_vars

\* the children the engine has spawned that are running
Running ==
    (IF child.state = "running" THEN 1 ELSE 0) + (IF pc = "listing" THEN 1 ELSE 0)

\* the engine spawns the toolchain only in the first step of the call, and a
\* listing child only for the next artifact, after a successful exit of the
\* toolchain, no other child running
C27_SpawnStep ==
    /\ commands' # commands =>
          /\ pc = "new" /\ commands = <<>> /\ Len(commands') = 1 /\ Running = 0
    /\ listings' # listings =>
          /\ pc = "list" /\ status = "success" /\ child.state = "exited"
          /\ Running = 0
          /\ Len(listings') = Len(listings) + 1
          /\ Len(listings) = Len(listed)
          /\ SubSeq(listings', 1, Len(listings)) = listings
          /\ listings'[Len(listings')].cmd.program
                = artifacts[Len(listings) + 1].executable
    /\ pc \in {"done", "panic"} => UNCHANGED <<commands, listings, pc>>

\* in every state of the call: one toolchain command at most, listings only
\* after its successful exit, one per artifact in order, one child at most
C27_OneAtATime ==
    /\ Len(commands) <= 1
    /\ pc # "new" => Len(commands) = 1
    /\ Running <= 1
    /\ listings # <<>> =>
          /\ kind = "test" /\ status = "success" /\ child.state = "exited"
    /\ status = "failure" => listings = <<>>
    /\ Len(listings) <= Len(artifacts)
    /\ pc = "list" => Len(listings) = Len(listed)
    /\ pc = "listing" => Len(listings) = Len(listed) + 1

\* C27: one call of test::Compiler::compile spawns the toolchain once, spawns
\* no listing before the toolchain has exited with success and none after a
\* failure, spawns the listing of each artifact at most once and after the
\* one before it has exited, never retries, and so has at most one child
\* running at any time.
C27_Sequential ==
    /\ [][C27_SpawnStep]_vars
    /\ []C27_OneAtATime

\* C27 witness: the second artifact's listing child runs, the toolchain and
\* the first listing child having exited
C27_Witness ==
    /\ kind = "test" /\ pc = "listing"
    /\ Len(listings) = 2 /\ Len(listed) = 1
    /\ child.state = "exited"

\* ------------------------------------------------ all artifacts or none

\* what a listing invocation did makes get_artifact_tests fail
ListingFailed(o) ==
    \/ o.io # "ok"
    \/ ~o.success
    \/ from_utf8(o.stdout) = None
    \/ ~parse_libtest_stdout(from_utf8(o.stdout)[1]).ok

\* the variant of the error of a failed listing
ListingError(o) ==
    IF o.io # "ok" THEN "Execute" ELSE IF ~o.success THEN "Libtest" ELSE "Parse"

\* C28: when the listing of the k-th artifact fails (spawn or wait error,
\* failure exit, stdout that does not decode or does not parse),
\* test::Compiler::compile returns that error: it is the first failure, the
\* results built for the artifacts before k are not returned, and no listing
\* is spawned for an artifact after k.
C28_AllOrNothing ==
    kind = "test" =>
        \A k \in 1..Len(listings) :
            ListingFailed(listings[k].out) =>
                /\ k = Len(listings)
                /\ \A j \in 1..(k - 1) : ~ListingFailed(listings[j].out)
                /\ pc = "done"
                /\ result.tag = "Err" /\ result.ok = <<>>
                /\ result.err = <<ListingError(listings[k].out)>>
                /\ Len(listed) = k - 1
                /\ listings[k].cmd.program = artifacts[k].executable

\* C28 witness: three artifacts, the first listed, the listing of the second
\* exits with failure, the third is never listed
C28_Witness ==
    /\ kind = "test" /\ pc = "done"
    /\ Len(artifacts) = 3 /\ Len(listings) = 2 /\ Len(listed) = 1
    /\ ~listings[2].out.success /\ listings[2].out.io = "ok"
    /\ result.tag = "Err" /\ result.err = <<"Libtest">>

\* ------------------------------------------------ a failed read of stdout

\* compile returned the error of a read of the toolchain's stdout
ReadFailed ==
    /\ result.tag = "Err" /\ result.arg = <<"read">>
    /\ result.err \in {<<"RunCargo">>, <<"Build", "RunCargo">>}

\* the step that leaves the parse loop with a return is the failed read: it
\* returns RunCargo, and calls no observer, waits for nothing, reads no stderr
C29_ReadErrorStep ==
    (pc = "parse" /\ pc' = "done") =>
        /\ result' = Err(IF kind = "bin" THEN RunCargo("read") ELSE Build(RunCargo("read")))
        /\ UNCHANGED <<consumed, cb_calls, trace, status, stderr, stderr_read,
                       listed, listings, commands>>

\* after it: nothing accumulated is returned, the observer was called for the
\* diagnostics read before the error, no wait, no stderr read, no listing
C29_AfterReadError ==
    ReadFailed =>
        /\ pc = "done" /\ result.ok = <<>>
        /\ ReturnedVariant = "RunCargo"
        /\ cb_calls = (IF on_compiler_msg THEN DiagnosticsOf(consumed) ELSE <<>>)
        /\ status = "none" /\ stderr_read = "unread"
        /\ listed = <<>> /\ listings = <<>>
        /\ Len(commands) = 1

\* C29: when a read of a record from the toolchain's stdout gives an I/O
\* error, compile returns RunCargo in that step: what was accumulated is not
\* returned, the observer was called only for the diagnostics before the
\* error, the child is not waited for and stderr is neither read nor
\* classified.
C29_ReadErrorReturnsAtOnce ==
    /\ [][C29_ReadErrorStep]_vars
    /\ []C29_AfterReadError

\* C29 witness: the read fails after a diagnostic, given to the observer, and
\* an executable
C29_Witness ==
    /\ kind = "bin" /\ ReadFailed
    /\ artifact # None /\ Len(cb_calls) = 1 /\ Len(consumed) = 2

\* ------------------------------------------------------- call after call

\* compile is called again on the same Compiler: what the call before read,
\* ran and returned is behind it; the Compiler's fields are as they were. The
\* locals of the call before hold nothing the new call may use: they are kept
\* here as they were left, until the new call declares its own
Call ==
    /\ pc \in {"done", "panic"}
    /\ calls < MaxCalls
    /\ calls' = calls + 1
    /\ pc' = "new"
    /\ result' = NoResult
    /\ commands' = <<>>
    /\ consumed' = <<>> /\ cb_calls' = <<>> /\ trace' = <<>>
    /\ status' = "none" /\ stderr' = <<>> /\ stderr_read' = "unread"
    /\ listed' = <<>> /\ listings' = <<>>
    /\ UNCHANGED <<pipes, kind, name, on_compiler_msg, config, artifact, artifacts>>

\* one turn of the loop of either compile, over a short stream
CallMessage ==
    /\ pc = "parse"
    /\ Len(consumed) < CallRecords
    /\ \E msg \in {CompilerMessage("d1"),
                   CompilerArtifact(CargoArtifact("t1", Some("e1"), TRUE)),
                   CompilerArtifact(CargoArtifact("t2", None, TRUE))} :
          IF kind = "bin"
          THEN BinLoopBody(msg) /\ UNCHANGED artifacts
          ELSE TestLoopBody(msg) /\ UNCHANGED <<pc, artifact, result>>
    /\ UNCHANGED <<pipes, kind, name, on_compiler_msg, config, calls, commands, status,
                   stderr, stderr_read, listed, listings>>

InitCalls ==
    /\ kind \in {"bin", "test"}
    /\ name = Any
    /\ on_compiler_msg = FALSE
    /\ config = new(kind)
    /\ calls = 1
    /\ commands = <<>>
    /\ pc = "new"
    /\ consumed = <<>>
    /\ artifact = None
    /\ artifacts = <<>>
    /\ cb_calls = <<>>
    /\ trace = <<>>
    /\ status = "none"
    /\ stderr = <<>>
    /\ stderr_read = "unread"
    /\ listed = <<>>
    /\ listings = <<>>
    /\ result = NoResult
    /\ child = NoChild
    /\ stdout_pipe = <<>>
    /\ stderr_pipe = <<>>

NextCalls ==
    \/ workspace("w") \/ package(Name("p")) \/ target_dir("t")
    \/ features(FeatureSpec_All) \/ features(Subset(FALSE, <<"f1">>))
    \/ release(TRUE) \/ release(FALSE)
    \/ set_on_compiler_msg
    \/ BinSpawn \/ TestSpawn \/ CallMessage
    \/ BinReadError \/ BinEof \/ BinWait \/ BinReturn
    \/ TestReadError \/ TestEof \/ TestWait \/ TestReturn
    \/ TestListFrom({Output("ok", TRUE, <<"a", COLON, SPACE, TEST, NL>>, <<>>),
                     Output("ok", FALSE, <<>>, <<"a">>)})
    \/ TestCollect
    \/ Call

\* setter calls and compile calls, in any order
SpecCalls == InitCalls /\ [][NextCalls]_vars

\* only a step outside compile, a setter's, changes the request
C30_RequestStep ==
    (config' # config \/ on_compiler_msg' # on_compiler_msg \/ kind' # kind
        \/ name' # name) =>
        /\ pc = "new" /\ pc' = "new"
        /\ UNCHANGED <<calls, commands, result>>

\* in every call: the command is the one of the request as it now is, the
\* accumulator holds what this run's stream gave, and the result is the one
\* of this run's stream, exit status and stderr
C30_ThisRunOnly ==
    LET ex == ExeMessages(consumed)
        tex == TestExeMessages(consumed)
    IN  /\ commands \in {<<>>, <<toolchain_command>>}
        /\ pc # "new" => commands = <<toolchain_command>>
        /\ (pc # "new" /\ ~SpawnFailed) =>
              IF kind = "bin"
              THEN artifact = IF ex = <<>> THEN None ELSE Some(ex[1].artifact)
              ELSE artifacts = [i \in 1..Len(tex) |->
                                   ExecutableArtifact_maybe_from(tex[i].artifact)[1]]
        /\ pc \in {"done", "panic"} =>
              IF result = Panic(ASSERT_ONE_EXECUTABLE)
              THEN kind = "bin" /\ Len(ex) = 2
              ELSE IF status = "none"
              THEN result.tag = "Err" /\ result.arg \in {<<"spawn">>, <<"read">>, <<"wait">>}
              ELSE IF status = "failure"
              THEN result.tag = "Err" /\ stderr_read # "unread"
              ELSE IF kind = "bin"
              THEN result = IF ex = <<>> THEN Panic(EXPECT_BUILT)
                            ELSE Ok(ExecutableArtifact_maybe_from(ex[1].artifact))
              ELSE /\ Len(listings) <= Len(tex)
                   /\ result.tag = "Ok" =>
                         /\ Len(result.ok) = Len(tex)
                         /\ \A i \in 1..Len(tex) :
                               <<result.ok[i].artifact.executable>>
                                   = tex[i].artifact.executable

\* C30: compile does not change the request (name, kind, package, features,
\* release flag, target directory, workspace, name policy, type selector) and
\* keeps no artifact between calls: after any setter calls and compile calls,
\* a compile spawns the command of the request as the setters last left it,
\* starts from an empty accumulator, and returns what this run's child output
\* gives, whatever the earlier runs did.
C30_NoStateBetweenCalls ==
    /\ [][C30_RequestStep]_vars
    /\ []C30_ThisRunOnly

\* C30 witness: a second call, made after release(true), spawns the release
\* build and, the toolchain reporting success and no executable, panics
C30_Witness ==
    /\ calls = 2 /\ kind = "bin" /\ pc = "panic"
    /\ result = Panic(EXPECT_BUILT)
    /\ config.is_release
    /\ commands[1].args = <<"build", "--message-format=json-diagnostic-rendered-ansi",
                            "--package", "*", "--release", "--bin", "a">>

\* -------------------------------------------------- the split of a line

\* the listing of the one test binary prints any text of at most MaxTokens
\* tokens, names and kinds with colons and spaces of their own included
NextLine ==
    \/ TestListFrom({Output("ok", TRUE, text, <<>>) :
                        text \in TextsOf({<<t>> : t \in {"a", COLON, SPACE, TEST,
                                                         BENCHMARK, NL}},
                                         MaxTokens)})
    \/ TestCollect

SpecLine == InitParse /\ [][NextLine]_vars

\* the places of a line where ": " stands
SeparatorsOf(l) == {i \in 1..Len(l) : OccursAt(l, i, <<COLON, SPACE>>)}

\* what stands before and after the last ": " of a line that has one
BeforeLast(l) ==
    LET i == CHOOSE i \in SeparatorsOf(l) : \A j \in SeparatorsOf(l) : j <= i
    IN  SubSeq(l, 1, i - 1)

AfterLast(l) ==
    LET i == CHOOSE i \in SeparatorsOf(l) : \A j \in SeparatorsOf(l) : j <= i
    IN  SubSeq(l, i + 2, Len(l))

\* C31: parse_libtest_stdout splits a line at its last ": ": the name is all
\* that stands before it, as it is (colons, "::" and earlier ": " included),
\* the kind all that stands after it, compared as it is, untrimmed, with test
\* and benchmark; a line without ": ", the empty line included, is a grammar
\* violation.
C31_SplitAtLastSeparator ==
    Parsed =>
        LET text == listings[1].out.stdout
            ls == lines(text)
            units == SelectSeq(ls, LAMBDA l : AfterLast(l) \in {<<TEST>>, <<BENCHMARK>>})
        IN  IF \E i \in 1..Len(ls) : SeparatorsOf(ls[i]) = {}
            THEN /\ result = Err(Parse(text))
                 /\ listed = <<>>
            ELSE /\ result.tag \in {"None", "Ok"}
                 /\ Len(listed) = 1
                 /\ listed[1].tests =
                       [k \in 1..Len(units) |->
                           TestFn(BeforeLast(units[k]),
                                  IF AfterLast(units[k]) = <<TEST>> THEN "Test"
                                  ELSE "Bench")]

\* C31 witness: a test whose name holds a ": " of its own; a unit dropped for
\* the space after its kind; an empty line that fails the parse
C31_Witness ==
    /\ Parsed /\ pc = "done"
    /\ \/ /\ listings[1].out.stdout = <<COLON, SPACE, COLON, SPACE, TEST>>
          /\ result.tag = "Ok"
          /\ result.ok[1].tests = <<TestFn(<<COLON, SPACE>>, "Test")>>
       \/ /\ listings[1].out.stdout = <<"a", COLON, SPACE, TEST, SPACE>>
          /\ result.tag = "Ok" /\ result.ok[1].tests = <<>>
       \/ /\ listings[1].out.stdout = <<NL>>
          /\ result = Err(Parse(<<NL>>))

====
